---- MODULE Spec2Model ----
(***************************************************************************)
(* Revenue orchestrator: outbound admission control (Gmail channel), the   *)
(* approvals store, and the inbound webhook endpoints (Calendly, Otter,    *)
(* Fireflies, Slack interactions, Gmail push).                             *)
(*                                                                         *)
(* All persisted state is the browser's localStorage; every key the code   *)
(* reads or writes is one variable here, named after the key.  An async    *)
(* function is a process: it runs atomically from one await to the next,   *)
(* and other calls may run in between.                                     *)
(***************************************************************************)
EXTENDS Integers, Sequences, FiniteSets, TLC

VARIABLES
    day,                  \* calendar day of the wall clock (Date#toDateString)
    tod,                  \* time of day of the wall clock, in minutes
    gmail_config,         \* localStorage 'gmail_config' (None: not stored)
    gmail_first_send_date,\* localStorage 'gmail_first_send_date' (None or minutes since epoch)
    gmail_sent,           \* localStorage 'gmail_sent_<date>': day -> count
    sent_emails,          \* localStorage 'sent_emails'
    approvals,            \* localStorage 'approvals': outreachId -> entry or None
    calls,                \* the sendOutreachEmail calls in progress
    recorded,             \* history: day -> number of sends recorded that day
    okCalls,              \* history: day -> number of calls made and answered success: true that day
    env,                  \* import.meta.env: which webhook secrets are configured
    reqs,                 \* the webhook endpoint calls in progress
    meetings,             \* localStorage 'meetings'
    calendly_meetings,    \* localStorage 'calendly_meetings'
    pre_meeting_research, \* localStorage 'pre_meeting_research'
    pre_meeting_emails,   \* localStorage 'pre_meeting_emails'
    transcripts,          \* localStorage 'transcripts'
    voice_library,        \* localStorage 'voice_library'
    email_responses,      \* localStorage 'email_responses'
    slack_notifications,  \* localStorage 'slack_notifications'
    slack_message_history,\* localStorage 'slack_message_history'
    effects,              \* history: event key -> side effects applied for it
    linkedin_config,      \* localStorage 'linkedin_config' (None: not stored)
    linkedin_connections, \* localStorage 'linkedin_connections_<date>': day -> count
    linkedin_inmails,     \* localStorage 'linkedin_inmails_<date>': day -> count
    linkedin_last_action, \* localStorage 'linkedin_last_action' (None or minutes since epoch)
    linkedin_actions,     \* localStorage 'linkedin_actions'
    liCalls,              \* the sendConnectionRequest / sendInMail calls in progress
    emailBatch,           \* the batchSendEmails call in progress
    liBatch,              \* the batchSendConnections call in progress
    probe                 \* the last call of a function without stored state, and its result

emailVars == <<gmail_config, gmail_first_send_date, gmail_sent, sent_emails, calls,
              recorded, okCalls>>
clockVars == <<day, tod>>
hookVars == <<env, reqs, meetings, calendly_meetings, pre_meeting_research,
              pre_meeting_emails, transcripts, voice_library, email_responses,
              slack_notifications, slack_message_history, effects>>
liVars == <<linkedin_config, linkedin_connections, linkedin_inmails, linkedin_last_action,
           linkedin_actions, liCalls>>
batchVars == <<emailBatch, liBatch>>
vars == <<clockVars, emailVars, approvals, hookVars, liVars, batchVars, probe>>

NULL == "null"

\* An optional value (a missing localStorage key, an undefined field): None
\* or Some(v)
None == <<>>
Some(v) == <<v>>
Get(o) == o[1]

\* No call of a function without stored state has been made
NoCall == [fn |-> NULL]

----------------------------------------------------------------------------
(* Bounds of the model *)

MaxDay == 1
NumCalls == 2
MaxSent == 2

Days == 0..MaxDay
TimesOfDay == {480, 720, 1080}        \* 08:00, 12:00, 18:00
Calls == 1..NumCalls
OutreachIds == {"o1", "o2"}
Users == {"alice", "bob"}
DailyLimits == {1, 2}
EarlierSends == 9

----------------------------------------------------------------------------
(* Time and strings *)

MinutesPerDay == 1440

Now == day * MinutesPerDay + tod

Min(a, b) == IF a < b THEN a ELSE b

\* A time string: the characters '0'..'9' are 0..9 and ':' is 10, which keeps
\* the order of the character codes ('9' < ':').
Colon == 10

\* `${hours.padStart(2,'0')}:${minutes.padStart(2,'0')}`
HHMM(t) ==
    << (t \div 60) \div 10, (t \div 60) % 10, Colon, (t % 60) \div 10, (t % 60) % 10 >>

\* JavaScript's a < b on strings
StrLess(a, b) ==
    LET n == Min(Len(a), Len(b))
        diff == {i \in 1..n : a[i] # b[i]}
    IN  IF diff = {} THEN Len(a) < Len(b)
        ELSE LET i == CHOOSE k \in diff : \A j \in diff : k <= j
             IN  a[i] < b[i]

\* JavaScript's a <= b on strings: by the first differing character, a proper
\* prefix being smaller.
StrLeq(a, b) ==
    LET n == Min(Len(a), Len(b))
        diff == {i \in 1..n : a[i] # b[i]}
    IN  IF diff = {} THEN Len(a) <= Len(b)
        ELSE LET i == CHOOSE k \in diff : \A j \in diff : k <= j
             IN  a[i] < b[i]

\* parseInt of a string of digits (the longest numeric prefix)
RECURSIVE ParseDigits(_, _)
ParseDigits(s, acc) ==
    IF s = <<>> \/ Head(s) = Colon THEN acc
    ELSE ParseDigits(Tail(s), acc * 10 + Head(s))

\* s.split(':')[k], k = 0 or 1
RECURSIVE SplitColon(_, _)
SplitColon(s, k) ==
    IF s = <<>> THEN <<>>
    ELSE IF k = 0 THEN (IF Head(s) = Colon THEN <<>> ELSE <<Head(s)>> \o SplitColon(Tail(s), 0))
    ELSE IF Head(s) = Colon THEN SplitColon(Tail(s), k - 1)
    ELSE SplitColon(Tail(s), k)

----------------------------------------------------------------------------
(* Gmail channel: configuration, warmup, window, counters *)

DEFAULT_CONFIG ==
    [dailyLimit |-> 50, startTime |-> HHMM(540), endTime |-> HHMM(1020),
     warmupEnabled |-> TRUE]

getEmailConfig == IF gmail_config = None THEN DEFAULT_CONFIG ELSE Get(gmail_config)

\* getAccountAgeInDays returns the age and, on the first call ever, stores now
\* as the first send date.
AccountAge(first) ==
    IF first = None THEN 0
    ELSE LET diff == IF Now >= Get(first) THEN Now - Get(first) ELSE Get(first) - Now
         IN  (diff + MinutesPerDay - 1) \div MinutesPerDay

FirstSendAfterAge(first) == IF first = None THEN Some(Now) ELSE first

\* A ramp whose steps are taken one day late
WarmupLimitLate(accountAge) ==
    IF accountAge <= 7 THEN 10
    ELSE IF accountAge <= 14 THEN 25
    ELSE IF accountAge <= 21 THEN 50
    ELSE 100

WarmupLimitOf(accountAge) ==
    IF accountAge < 7 THEN 10
    ELSE IF accountAge < 14 THEN 25
    ELSE IF accountAge < 21 THEN 50
    ELSE 100

getWarmupLimit == WarmupLimitOf(AccountAge(gmail_first_send_date))

isWithinSendingWindow ==
    LET config == getEmailConfig
        currentTime == HHMM(tod)
    IN  StrLeq(config.startTime, currentTime) /\ StrLeq(currentTime, config.endTime)

getTodaySentCount == gmail_sent[day]

\* A call of getWarmupLimit(), with what it read and what it returned
WarmupLimitQueried ==
    /\ probe' = [fn |-> "getWarmupLimit", first |-> gmail_first_send_date, now |-> Now,
                 accountAge |-> AccountAge(gmail_first_send_date),
                 limit |-> getWarmupLimit]
    /\ gmail_first_send_date' = FirstSendAfterAge(gmail_first_send_date)
    /\ UNCHANGED <<clockVars, gmail_config, gmail_sent, sent_emails, calls, recorded,
                   okCalls, approvals, hookVars, liVars, batchVars>>

incrementSentCount == [gmail_sent EXCEPT ![day] = getTodaySentCount + 1]

\* A cap that leaves the warmup ramp out.
SendCapNoWarmup == getEmailConfig.dailyLimit

\* Math.min(warmupLimit, config.dailyLimit) of canSendToday
SendCap ==
    LET config == getEmailConfig
        warmupLimit == IF config.warmupEnabled THEN getWarmupLimit ELSE config.dailyLimit
    IN  Min(warmupLimit, config.dailyLimit)

\* An admission check that lets one send too many through.
canSendTodayInclusive == getTodaySentCount <= SendCap

canSendToday == getTodaySentCount < SendCap

\* The write canSendToday makes: getWarmupLimit is evaluated only with warmup on.
FirstSendAfterCanSend ==
    IF getEmailConfig.warmupEnabled THEN FirstSendAfterAge(gmail_first_send_date)
    ELSE gmail_first_send_date

\* Tomorrow at the window's start
getNextSendingWindow ==
    LET config == getEmailConfig
    IN  (day + 1) * MinutesPerDay
          + ParseDigits(SplitColon(config.startTime, 0), 0) * 60
          + ParseDigits(SplitColon(config.startTime, 1), 0)

updateEmailConfig(dl, we) ==
    /\ gmail_config' = Some([getEmailConfig EXCEPT !.dailyLimit = dl, !.warmupEnabled = we])
    /\ UNCHANGED <<clockVars, probe, liVars, batchVars, gmail_first_send_date, gmail_sent, sent_emails, calls,
                   recorded, okCalls, approvals, hookVars>>

----------------------------------------------------------------------------
(* callAIAgent: the Agent Service call. It resolves to {status, result} or   *)
(* rejects; every caller wraps it in try/catch.                              *)

AgentOutcomes == {"success", "error", "throw"}

----------------------------------------------------------------------------
(* sendOutreachEmail, one process per call *)

\* success, error and scheduledFor are the EmailSendResult; startDay is the
\* day the call was made and cap the limit canSendToday compared the day's
\* count with.
IdleCall == [pc |-> "idle", outreachId |-> NULL, startDay |-> 0, cap |-> 0,
             success |-> FALSE, error |-> NULL, scheduledFor |-> None]

InFlight(c) == calls[c].pc \in {"sending", "notifying"}

\* The admission checks of sendOutreachEmail, in their order: the result of a
\* denied call, or the call waiting for simulateGmailSend.
EmailAdmission(id) ==
    IF ~canSendToday
    THEN [pc |-> "done", outreachId |-> id, startDay |-> day, cap |-> SendCap,
          success |-> FALSE,
          error |-> "Daily sending limit reached", scheduledFor |-> None]
    ELSE IF ~isWithinSendingWindow
    THEN [pc |-> "done", outreachId |-> id, startDay |-> day, cap |-> SendCap,
          success |-> FALSE,
          error |-> "Outside sending window",
          scheduledFor |-> Some(getNextSendingWindow)]
    ELSE [pc |-> "sending", outreachId |-> id, startDay |-> day, cap |-> SendCap,
          success |-> FALSE,
          error |-> NULL, scheduledFor |-> None]

\* From the call to the first await: the admission checks, then simulateGmailSend
\* is started.
SendStart(c, id) ==
    /\ calls[c].pc = "idle"
    /\ Len(sent_emails) + Cardinality({d \in Calls : InFlight(d)}) < MaxSent
    /\ gmail_first_send_date' = FirstSendAfterCanSend
    /\ calls' = [calls EXCEPT ![c] = EmailAdmission(id)]
    /\ UNCHANGED <<clockVars, probe, liVars, batchVars, gmail_config, gmail_sent, sent_emails, recorded, okCalls,
                   approvals, hookVars>>

storeSentEmail(id) == Append(sent_emails, [outreachId |-> id, sentAt |-> Now])

\* simulateGmailSend has resolved: the send is counted and stored, and the
\* Monitoring Manager call is started.
SendRecorded(c) ==
    /\ calls[c].pc = "sending"
    /\ gmail_sent' = incrementSentCount
    /\ sent_emails' = storeSentEmail(calls[c].outreachId)
    /\ calls' = [calls EXCEPT ![c].pc = "notifying"]
    /\ recorded' = [recorded EXCEPT ![day] = @ + 1]
    /\ UNCHANGED <<clockVars, probe, liVars, batchVars, gmail_config, gmail_first_send_date, okCalls,
                   approvals, hookVars>>

\* The Monitoring Manager call settles. Its status is not read; a rejection
\* reaches the catch block.
SendNotified(c, outcome) ==
    /\ calls[c].pc = "notifying"
    /\ IF outcome = "throw"
       THEN /\ calls' = [calls EXCEPT ![c].pc = "done", ![c].success = FALSE,
                                      ![c].error = "agent error"]
            /\ UNCHANGED okCalls
       ELSE /\ calls' = [calls EXCEPT ![c].pc = "done", ![c].success = TRUE]
            /\ okCalls' = IF calls[c].startDay = day
                          THEN [okCalls EXCEPT ![day] = @ + 1] ELSE okCalls
    /\ UNCHANGED <<clockVars, probe, liVars, batchVars, gmail_config, gmail_first_send_date, gmail_sent,
                   sent_emails, recorded, approvals, hookVars>>

\* The caller takes the result.
SendReturn(c) ==
    /\ calls[c].pc = "done"
    /\ calls' = [calls EXCEPT ![c] = IdleCall]
    /\ UNCHANGED <<clockVars, probe, liVars, batchVars, gmail_config, gmail_first_send_date, gmail_sent,
                   sent_emails, recorded, okCalls, approvals, hookVars>>

----------------------------------------------------------------------------
(* getEmailStats, disconnectGmail *)

\* The statistics are read from the stores; the dailyLimit shown is computed
\* with getWarmupLimit, which stores the first send date when there is none.
getEmailStats ==
    /\ gmail_first_send_date' = FirstSendAfterAge(gmail_first_send_date)
    /\ UNCHANGED <<clockVars, probe, liVars, batchVars, gmail_config, gmail_sent, sent_emails,
                   calls, recorded, okCalls, approvals, hookVars>>

\* The day's counters gmail_sent_<day> are not among the removed keys.
disconnectGmail ==
    /\ gmail_config' = None
    /\ gmail_first_send_date' = None
    /\ sent_emails' = <<>>
    /\ email_responses' = <<>>
    /\ UNCHANGED <<clockVars, probe, liVars, batchVars, gmail_sent, calls, recorded, okCalls,
                   approvals, env, reqs, meetings, calendly_meetings,
                   pre_meeting_research, pre_meeting_emails, transcripts, voice_library,
                   slack_notifications, slack_message_history, effects>>

----------------------------------------------------------------------------
(* batchSendEmails and batchSendConnections: one loop each, its sends made  *)
(* through call 1 of the channel                                            *)

BatchSizes == {2, 3}
\* Math.random() * 30 minutes, in whole minutes: Math.random() is less than 1
RandomDelays == {0, 29}

\* A batch sender: the items left, the results pushed so far, the delay read
\* when the batch started and the time its sleep ends. History: the day the
\* batch started, whether it has stayed on that day, and the day's count and
\* the cap's remainder r at the start.
\* size is the length of the input list, left the items not yet handled.
IdleBatch == [pc |-> "idle", size |-> 0, left |-> 0, results |-> <<>>, delay |-> 0,
              wakeAt |-> 0, startDay |-> 0, sameDay |-> TRUE, base |-> 0, r |-> 0]

RECURSIVE RecordedUpTo(_)
RecordedUpTo(d) == IF d = 0 THEN recorded[0] ELSE recorded[d] + RecordedUpTo(d - 1)

\* history: the sends recorded so far
TotalRecorded == RecordedUpTo(MaxDay)

Remaining(cap, count) == IF cap > count THEN cap - count ELSE 0

\* A denial that carries no retry time.
BatchDeniedWithoutHint(scheduledFor) ==
    [success |-> FALSE, error |-> "Daily limit reached", scheduledFor |-> None]

BatchDenied(scheduledFor) ==
    [success |-> FALSE, error |-> "Daily limit reached", scheduledFor |-> Some(scheduledFor)]

ResultOf(call) ==
    [success |-> call.success, error |-> call.error, scheduledFor |-> call.scheduledFor]

\* A loop that keeps the results of the sent items only.
PushedIfSent(b, result) ==
    [b EXCEPT !.results = IF result.success THEN Append(@, result) ELSE @,
              !.left = @ - 1,
              !.pc = IF b.left = 1 THEN "done" ELSE "running",
              !.sameDay = @ /\ day = b.startDay]

\* One item is done: its result is pushed; after the last one the batch returns.
Pushed(b, result) ==
    [b EXCEPT !.results = Append(@, result), !.left = @ - 1,
              !.pc = IF b.left = 1 THEN "done" ELSE "running",
              !.sameDay = @ /\ day = b.startDay]

batchSendEmails(k) ==
    /\ emailBatch.pc = "idle"
    /\ calls[1].pc = "idle"
    /\ emailBatch' = [IdleBatch EXCEPT !.pc = "running", !.size = k, !.left = k,
                                        !.startDay = day,
                                        !.base = getTodaySentCount,
                                        !.r = Remaining(SendCap, getTodaySentCount)]
    /\ UNCHANGED <<clockVars, probe, emailVars, approvals, hookVars, liVars, liBatch>>

\* The loop's body up to its await: the item is denied by canSendToday, or
\* sendOutreachEmail is called and runs to its own first await.
EmailBatchItem ==
    /\ emailBatch.pc = "running"
    /\ calls[1].pc = "idle"
    /\ gmail_first_send_date' = FirstSendAfterCanSend
    /\ IF ~canSendToday
       THEN /\ emailBatch' = Pushed(emailBatch, BatchDenied(getNextSendingWindow))
            /\ UNCHANGED calls
       ELSE /\ TotalRecorded < EarlierSends + MaxSent
            /\ calls' = [calls EXCEPT ![1] = EmailAdmission("o1")]
            /\ emailBatch' = [emailBatch EXCEPT !.pc = "awaiting",
                                                !.sameDay = @ /\ day = emailBatch.startDay]
    /\ UNCHANGED <<clockVars, probe, liVars, liBatch, gmail_config, gmail_sent, sent_emails,
                   recorded, okCalls, approvals, hookVars>>

\* sendOutreachEmail has returned and the 2 s sleep is over.
EmailBatchCollect ==
    /\ emailBatch.pc = "awaiting"
    /\ calls[1].pc = "done"
    /\ emailBatch' = Pushed(emailBatch, ResultOf(calls[1]))
    /\ calls' = [calls EXCEPT ![1] = IdleCall]
    /\ UNCHANGED <<clockVars, probe, liVars, liBatch, gmail_config, gmail_first_send_date,
                   gmail_sent, sent_emails, recorded, okCalls, approvals, hookVars>>

\* The caller takes the results.
EmailBatchReturn ==
    /\ emailBatch.pc = "done"
    /\ emailBatch' = IdleBatch
    /\ UNCHANGED <<clockVars, probe, emailVars, approvals, hookVars, liVars, liBatch>>

----------------------------------------------------------------------------
(* The wall clock *)

\* Time passes: to a later moment of the day, or to a moment of the next day.
Advance(times) ==
    /\ \/ /\ \E t \in times : t > tod /\ tod' = t
          /\ day' = day
       \/ /\ day < MaxDay
          /\ day' = day + 1
          /\ tod' \in times
    /\ UNCHANGED <<probe, emailVars, approvals, hookVars, liVars, batchVars>>

Tick == Advance(TimesOfDay)

----------------------------------------------------------------------------
(* Approvals *)

\* A handleApproval that stores the status alone
handleApprovalUnattributed(outreachId, status, approvedBy) ==
    [approvals EXCEPT ![outreachId] =
        Some([status |-> status, approved_by |-> NULL, approved_at |-> Now])]

\* handleApproval(outreachId, status, approvedBy)
handleApproval(outreachId, status, approvedBy) ==
    [approvals EXCEPT ![outreachId] =
        Some([status |-> status, approved_by |-> approvedBy, approved_at |-> Now])]

----------------------------------------------------------------------------
(* LinkedIn channel: configuration, counters, delay *)

NumLiCalls == 2
MaxActions == 2

LiCalls == 1..NumLiCalls
LinkedInTimes == {600, 660, 780, 1080}     \* 10:00, 11:00, 13:00, 18:00
ActionTypes == {"connection", "inmail"}
ActionLimits == {1, 2}
ActionDelays == {60, 120}

LINKEDIN_DEFAULT_CONFIG ==
    [dailyConnectionLimit |-> 15, dailyInMailLimit |-> 10, actionDelayMinutes |-> 120,
     startTime |-> HHMM(540), endTime |-> HHMM(1020), enableEngagement |-> TRUE,
     safetyLimitsEnabled |-> TRUE]

getLinkedInConfig ==
    IF linkedin_config = None THEN LINKEDIN_DEFAULT_CONFIG ELSE Get(linkedin_config)

updateLinkedInConfig(cl, il, delay, safety) ==
    /\ linkedin_config' =
          Some([getLinkedInConfig EXCEPT !.dailyConnectionLimit = cl,
                                         !.dailyInMailLimit = il,
                                         !.actionDelayMinutes = delay,
                                         !.safetyLimitsEnabled = safety])
    /\ UNCHANGED <<clockVars, probe, emailVars, approvals, hookVars, linkedin_connections,
                   linkedin_inmails, linkedin_last_action, linkedin_actions, liCalls,
                   batchVars>>

getTodayLinkedInStats ==
    [connections |-> linkedin_connections[day], inmails |-> linkedin_inmails[day]]

canPerformAction(actionType) ==
    LET config == getLinkedInConfig
        stats == getTodayLinkedInStats
    IN  IF ~config.safetyLimitsEnabled THEN TRUE
        ELSE IF actionType = "connection"
        THEN stats.connections < config.dailyConnectionLimit
        ELSE stats.inmails < config.dailyInMailLimit

isWithinLinkedInWindow ==
    LET config == getLinkedInConfig
        currentTime == HHMM(tod)
    IN  StrLeq(config.startTime, currentTime) /\ StrLeq(currentTime, config.endTime)

\* A call of isWithinSendingWindow(), with what it read and what it returned
EmailWindowChecked ==
    /\ probe' = [fn |-> "isWithinSendingWindow", startTime |-> getEmailConfig.startTime,
                 endTime |-> getEmailConfig.endTime, t |-> tod,
                 within |-> isWithinSendingWindow]
    /\ UNCHANGED <<clockVars, emailVars, approvals, hookVars, liVars, batchVars>>

\* A call of isWithinLinkedInWindow()
LinkedInWindowChecked ==
    /\ probe' = [fn |-> "isWithinLinkedInWindow",
                 startTime |-> getLinkedInConfig.startTime,
                 endTime |-> getLinkedInConfig.endTime, t |-> tod,
                 within |-> isWithinLinkedInWindow]
    /\ UNCHANGED <<clockVars, emailVars, approvals, hookVars, liVars, batchVars>>

getLastActionTime == linkedin_last_action

\* The clock of the model counts whole minutes, so the quotient
\* (now - lastAction) / (1000 * 60) is the difference itself.
canPerformActionNow ==
    LET config == getLinkedInConfig
        lastAction == getLastActionTime
    IN  IF lastAction = None THEN TRUE
        ELSE Now - Get(lastAction) >= config.actionDelayMinutes

updateLastActionTime == Some(Now)

\* A recording that counts every action on both counters.
incrementBothCounts(actionType) ==
    [connections |-> [linkedin_connections EXCEPT ![day] = @ + 1],
     inmails |-> [linkedin_inmails EXCEPT ![day] = @ + 1]]

\* A recording that counts every action as a connection request.
incrementConnectionsOnly(actionType) ==
    [connections |-> [linkedin_connections EXCEPT ![day] = @ + 1],
     inmails |-> linkedin_inmails]

\* The two counters after incrementActionCount(actionType)
incrementActionCount(actionType) ==
    [connections |-> IF actionType = "connection"
                     THEN [linkedin_connections EXCEPT ![day] = @ + 1]
                     ELSE linkedin_connections,
     inmails |-> IF actionType = "inmail"
                 THEN [linkedin_inmails EXCEPT ![day] = @ + 1]
                 ELSE linkedin_inmails]

\* Tomorrow at the window's start
getNextWindow ==
    LET config == getLinkedInConfig
    IN  (day + 1) * MinutesPerDay
          + ParseDigits(SplitColon(config.startTime, 0), 0) * 60
          + ParseDigits(SplitColon(config.startTime, 1), 0)

\* A retry time counted from now instead of from the last action.
getNextAvailableTimeFromNow == Now + getLinkedInConfig.actionDelayMinutes

getNextAvailableTime ==
    LET config == getLinkedInConfig
        lastAction == getLastActionTime
    IN  IF lastAction = None THEN Now
        ELSE Get(lastAction) + config.actionDelayMinutes

\* The action's timestamp is read nowhere and left out.
storeLinkedInAction(type) == Append(linkedin_actions, [type |-> type])

----------------------------------------------------------------------------
(* sendConnectionRequest and sendInMail, one process per call *)

\* success, error and scheduledFor are the LinkedInActionResult.
IdleLiCall == [pc |-> "idle", kind |-> NULL, success |-> FALSE, error |-> NULL,
               scheduledFor |-> None]

LiInFlight(c) == liCalls[c].pc = "calling"

LimitReached(kind) ==
    IF kind = "connection" THEN "Daily connection limit reached"
    ELSE "Daily InMail limit reached"

LiDenied(kind, error, scheduledFor) ==
    [pc |-> "done", kind |-> kind, success |-> FALSE, error |-> error,
     scheduledFor |-> Some(scheduledFor)]

\* The admission checks of both senders, in their order: the result of a
\* denied call, or the call waiting for the LinkedIn Orchestrator.
LiAdmission(kind) ==
    IF ~canPerformAction(kind) THEN LiDenied(kind, LimitReached(kind), getNextWindow)
    ELSE IF ~isWithinLinkedInWindow
    THEN LiDenied(kind, "Outside sending window", getNextWindow)
    ELSE IF ~canPerformActionNow
    THEN LiDenied(kind, "Action delay not met", getNextAvailableTime)
    ELSE [pc |-> "calling", kind |-> kind, success |-> FALSE, error |-> NULL,
          scheduledFor |-> None]

\* From the call to the await of callAIAgent
LiStart(c, kind) ==
    /\ liCalls[c].pc = "idle"
    /\ Len(linkedin_actions) + Cardinality({d \in LiCalls : LiInFlight(d)}) < MaxActions
    /\ liCalls' = [liCalls EXCEPT ![c] = LiAdmission(kind)]
    /\ UNCHANGED <<clockVars, probe, emailVars, approvals, hookVars, linkedin_config,
                   linkedin_connections, linkedin_inmails, linkedin_last_action,
                   linkedin_actions, batchVars>>

\* The LinkedIn Orchestrator call settles: on status success the action is
\* counted, the last action time set and the action stored.
LiSettled(c, outcome) ==
    LET kind == liCalls[c].kind IN
    /\ liCalls[c].pc = "calling"
    /\ kind \in ActionTypes
    /\ IF outcome = "success"
       THEN /\ linkedin_connections' = incrementActionCount(kind).connections
            /\ linkedin_inmails' = incrementActionCount(kind).inmails
            /\ linkedin_last_action' = updateLastActionTime
            /\ linkedin_actions' = storeLinkedInAction(kind)
            /\ liCalls' = [liCalls EXCEPT ![c].pc = "done", ![c].success = TRUE]
       ELSE /\ liCalls' = [liCalls EXCEPT ![c].pc = "done", ![c].success = FALSE,
                                          ![c].error = "agent " \o outcome]
            /\ UNCHANGED <<linkedin_connections, linkedin_inmails, linkedin_last_action,
                           linkedin_actions>>
    /\ UNCHANGED <<clockVars, probe, emailVars, approvals, hookVars, linkedin_config, batchVars>>

\* The caller takes the result.
LiReturn(c) ==
    /\ liCalls[c].pc = "done"
    /\ liCalls' = [liCalls EXCEPT ![c] = IdleLiCall]
    /\ UNCHANGED <<clockVars, probe, emailVars, approvals, hookVars, linkedin_config,
                   linkedin_connections, linkedin_inmails, linkedin_last_action,
                   linkedin_actions, batchVars>>

----------------------------------------------------------------------------
(* engageWithPost, performAdvancedAction, disconnectLinkedIn, getLinkedInStats *)

\* engageWithPost, from the call to the await of callAIAgent: the engagement
\* setting and the delay are checked, the daily caps and the window are not.
EngageStart(c) ==
    /\ liCalls[c].pc = "idle"
    /\ Len(linkedin_actions) + Cardinality({d \in LiCalls : LiInFlight(d)}) < MaxActions
    /\ liCalls' = [liCalls EXCEPT ![c] =
          IF ~getLinkedInConfig.enableEngagement
          THEN [pc |-> "done", kind |-> "engagement", success |-> FALSE,
                error |-> "Engagement disabled in settings", scheduledFor |-> None]
          ELSE IF ~canPerformActionNow
          THEN LiDenied("engagement", "Action delay not met", getNextAvailableTime)
          ELSE [pc |-> "calling", kind |-> "engagement", success |-> FALSE,
                error |-> NULL, scheduledFor |-> None]]
    /\ UNCHANGED <<clockVars, probe, emailVars, approvals, hookVars, linkedin_config,
                   linkedin_connections, linkedin_inmails, linkedin_last_action,
                   linkedin_actions, batchVars>>

\* The LinkedIn Orchestrator call of engageWithPost settles: on status
\* success the last action time is set and the action stored.
EngageSettled(c, outcome) ==
    /\ liCalls[c].pc = "calling"
    /\ liCalls[c].kind = "engagement"
    /\ IF outcome = "success"
       THEN /\ linkedin_last_action' = updateLastActionTime
            /\ linkedin_actions' = storeLinkedInAction("engagement")
            /\ liCalls' = [liCalls EXCEPT ![c].pc = "done", ![c].success = TRUE]
       ELSE /\ liCalls' = [liCalls EXCEPT ![c].pc = "done", ![c].success = FALSE,
                                          ![c].error = "agent " \o outcome]
            /\ UNCHANGED <<linkedin_last_action, linkedin_actions>>
    /\ UNCHANGED <<clockVars, probe, emailVars, approvals, hookVars, linkedin_config,
                   linkedin_connections, linkedin_inmails, batchVars>>

\* performAdvancedAction, from the call to the await of callAIAgent: nothing
\* is checked.
AdvancedStart(c) ==
    /\ liCalls[c].pc = "idle"
    /\ liCalls' = [liCalls EXCEPT ![c] =
          [pc |-> "calling", kind |-> "advanced", success |-> FALSE,
           error |-> NULL, scheduledFor |-> None]]
    /\ UNCHANGED <<clockVars, probe, emailVars, approvals, hookVars, linkedin_config,
                   linkedin_connections, linkedin_inmails, linkedin_last_action,
                   linkedin_actions, batchVars>>

\* The Computer Use Agent call settles: on status success the last action
\* time is set; nothing is counted or stored.
AdvancedSettled(c, outcome) ==
    /\ liCalls[c].pc = "calling"
    /\ liCalls[c].kind = "advanced"
    /\ IF outcome = "success"
       THEN /\ linkedin_last_action' = updateLastActionTime
            /\ liCalls' = [liCalls EXCEPT ![c].pc = "done", ![c].success = TRUE]
       ELSE /\ liCalls' = [liCalls EXCEPT ![c].pc = "done", ![c].success = FALSE,
                                          ![c].error = "agent " \o outcome]
            /\ UNCHANGED linkedin_last_action
    /\ UNCHANGED <<clockVars, probe, emailVars, approvals, hookVars, linkedin_config,
                   linkedin_connections, linkedin_inmails, linkedin_actions, batchVars>>

\* The day's counters linkedin_connections_<day> and linkedin_inmails_<day>
\* are not among the removed keys.
disconnectLinkedIn ==
    /\ linkedin_config' = None
    /\ linkedin_last_action' = None
    /\ linkedin_actions' = <<>>
    /\ UNCHANGED <<clockVars, probe, emailVars, approvals, hookVars, linkedin_connections,
                   linkedin_inmails, liCalls, batchVars>>

----------------------------------------------------------------------------
(* batchSendConnections *)

\* config is read once, for the sleep between two sends.
batchSendConnections(k) ==
    /\ liBatch.pc = "idle"
    /\ liCalls[1].pc = "idle"
    /\ liBatch' = [IdleBatch EXCEPT
                      !.pc = "running", !.size = k, !.left = k, !.startDay = day,
                      !.delay = getLinkedInConfig.actionDelayMinutes,
                      !.base = getTodayLinkedInStats.connections,
                      !.r = Remaining(getLinkedInConfig.dailyConnectionLimit,
                                      getTodayLinkedInStats.connections)]
    /\ UNCHANGED <<clockVars, probe, emailVars, approvals, hookVars, liVars, emailBatch>>

\* The loop's body up to its await, once the sleep after the last send is
\* over: the item is denied by canPerformAction, or sendConnectionRequest is
\* called and runs to its own first await.
LiBatchItem ==
    /\ liBatch.pc = "running"
    /\ liCalls[1].pc = "idle"
    /\ Now >= liBatch.wakeAt
    /\ IF ~canPerformAction("connection")
       THEN /\ liBatch' = Pushed(liBatch, BatchDenied(getNextWindow))
            /\ UNCHANGED liCalls
       ELSE /\ Len(linkedin_actions) < MaxActions
            /\ liCalls' = [liCalls EXCEPT ![1] = LiAdmission("connection")]
            /\ liBatch' = [liBatch EXCEPT !.pc = "awaiting",
                                          !.sameDay = @ /\ day = liBatch.startDay]
    /\ UNCHANGED <<clockVars, probe, emailVars, approvals, hookVars, emailBatch, linkedin_config,
                   linkedin_connections, linkedin_inmails, linkedin_last_action,
                   linkedin_actions>>

\* A loop that pushes the result and goes on to the next item at once.
LiBatchCollectNoSleep(extra) ==
    /\ liBatch.pc = "awaiting"
    /\ liCalls[1].pc = "done"
    /\ liBatch' = Pushed(liBatch, ResultOf(liCalls[1]))
    /\ liCalls' = [liCalls EXCEPT ![1] = IdleLiCall]
    /\ UNCHANGED <<clockVars, probe, emailVars, approvals, hookVars, emailBatch, linkedin_config,
                   linkedin_connections, linkedin_inmails, linkedin_last_action,
                   linkedin_actions>>

\* sendConnectionRequest has returned: its result is pushed and, after a
\* success, the loop sleeps for the delay plus a random extra.
LiBatchCollect(extra) ==
    /\ liBatch.pc = "awaiting"
    /\ liCalls[1].pc = "done"
    /\ liBatch' = [Pushed(liBatch, ResultOf(liCalls[1])) EXCEPT
                      !.wakeAt = IF liCalls[1].success
                                 THEN Now + liBatch.delay + extra ELSE @]
    /\ liCalls' = [liCalls EXCEPT ![1] = IdleLiCall]
    /\ UNCHANGED <<clockVars, probe, emailVars, approvals, hookVars, emailBatch, linkedin_config,
                   linkedin_connections, linkedin_inmails, linkedin_last_action,
                   linkedin_actions>>

\* The loop is over and the sleep after a last successful send has ended.
LiBatchFinished == liBatch.pc = "done" /\ Now >= liBatch.wakeAt

\* The caller takes the results.
LiBatchReturn ==
    /\ LiBatchFinished
    /\ liBatch' = IdleBatch
    /\ UNCHANGED <<clockVars, probe, emailVars, approvals, hookVars, liVars, emailBatch>>

----------------------------------------------------------------------------
(* Webhook endpoints: the requests *)

NumReqs == 2

Reqs == 1..NumReqs
EventIds == {"e1", "e2"}
StartTimes == {"2026-01-20T10:00Z", "2026-01-21T10:00Z"}
Phrases == {"p1", "p2"}
Signatures == {"none", "valid", "forged"}
SecretProviders == {"calendly", "otter", "fireflies", "slack"}
Providers == SecretProviders \cup {"gmail"}
CalendlyEvents == {"invitee.created", "invitee.canceled", "invitee.rescheduled"}
SlackActions == {"approve", "reject", "edit"}

\* A request as the provider (or anyone else) sends it. sig says what the
\* signature header or bearer key holds: nothing, the value the provider's
\* secret yields, or any other value.
CalendlyRequests ==
    [provider : {"calendly"}, event : CalendlyEvents, id : EventIds,
     sig : Signatures, start : StartTimes, user : {NULL}]

OtterRequests ==
    [provider : {"otter"}, event : {NULL}, id : EventIds,
     sig : Signatures, start : {NULL}, user : {NULL}]

FirefliesRequests ==
    [provider : {"fireflies"}, event : {NULL}, id : EventIds,
     sig : Signatures, start : {NULL}, user : {NULL}]

GmailRequests ==
    [provider : {"gmail"}, event : {NULL}, id : EventIds,
     sig : Signatures, start : {NULL}, user : {NULL}]

SlackRequests ==
    [provider : {"slack"}, event : SlackActions, id : OutreachIds,
     sig : Signatures, start : {NULL}, user : Users]

\* The event a request delivers: the provider, the kind of event and the
\* provider's id of it.
Key(r) == <<r.provider, r.event, r.id>>
Keys == ({"calendly"} \X CalendlyEvents \X EventIds)
          \cup ({"otter", "fireflies", "gmail"} \X {NULL} \X EventIds)
          \cup ({"slack"} \X SlackActions \X OutreachIds)

NoEffect == [agent |-> 0, writes |-> 0, notifs |-> 0]

\* status and success are the response; the rest is history: handled says
\* that the handler was entered, after holds the requests answered before this
\* one arrived, overlap says that another delivery of the same event was in
\* progress at some moment of this one, snap is effects[Key(req)] at arrival.
\* thrown says that the endpoint function rejected instead of returning.
IdleReq ==
    [pc |-> "idle", req |-> NULL, status |-> 0, success |-> FALSE,
     handled |-> FALSE, after |-> {}, overlap |-> FALSE, snap |-> NoEffect,
     thrown |-> FALSE]

Started(s) == reqs[s].pc # "idle"
Done(s) == reqs[s].pc = "done"
Running(s) == Started(s) /\ ~Done(s)

----------------------------------------------------------------------------
(* Verification *)

verifyCalendlyWebhook(payload, signature, secret) == TRUE

verifyOtterWebhook(payload, signature, secret) == TRUE

verifySlackRequest(timestamp, signature, body, signingSecret) == TRUE

\* The guard each endpoint puts before its handler: TRUE when the request is
\* answered 401.
Rejected401(r) ==
    CASE r.provider = "calendly" ->
            env["calendly"] /\ ~verifyCalendlyWebhook(r, r.sig, env["calendly"])
      [] r.provider = "otter" ->
            env["otter"] /\ ~verifyOtterWebhook(r, r.sig, env["otter"])
      [] r.provider = "fireflies" ->
            \* apiKey = header without 'Bearer ' or ''; expectedKey = env or ''
            env["fireflies"] /\ r.sig # "valid"
      [] r.provider = "slack" ->
            env["slack"] /\ ~verifySlackRequest(NULL, r.sig, r, env["slack"])
      [] r.provider = "gmail" -> FALSE

----------------------------------------------------------------------------
(* Storage helpers *)

\* utils/calendly: getCalendlyConfig and utils/slack: getSlackConfig. Neither
\* 'calendly_config' nor 'slack_config' is written by any operation modelled
\* here, so both read their defaults.
getCalendlyConfig == [enablePreMeetingResearch |-> TRUE, preMeetingEmailEnabled |-> TRUE]

getSlackConfig == [positiveResponses |-> TRUE, meetingsBooked |-> TRUE, dailyDigest |-> TRUE]

\* The CalendlyMeeting the endpoint builds from the body
\* (invitee.canceled is set on the cancellation event); a field a record does
\* not have is None.
Meeting(r) ==
    [eventId |-> r.id, eventType |-> r.event, startTime |-> r.start,
     status |-> IF r.event = "invitee.canceled" THEN "canceled" ELSE "scheduled",
     createdAt |-> None, updatedAt |-> None]

\* utils/webhooks: storeMeetingEvent (the record holds no event id)
storeMeetingEvent(r) ==
    Append(meetings, [event_type |-> r.event, start_time |-> r.start,
                      status |-> Meeting(r).status])

\* utils/calendly: storeMeeting
storeMeeting(meeting) ==
    Append(calendly_meetings, [meeting EXCEPT !.createdAt = Some(Now)])

\* utils/calendly: updateMeetingStatus
updateMeetingStatus(eventId, status) ==
    [i \in DOMAIN calendly_meetings |->
        IF calendly_meetings[i].eventId = eventId
        THEN [calendly_meetings[i] EXCEPT !.status = status, !.updatedAt = Some(Now)]
        ELSE calendly_meetings[i]]

\* utils/calendly: updateMeeting
updateMeeting(meeting) ==
    [i \in DOMAIN calendly_meetings |->
        IF calendly_meetings[i].eventId = meeting.eventId
        THEN [meeting EXCEPT !.updatedAt = Some(Now)]
        ELSE calendly_meetings[i]]

\* utils/webhooks: storeTranscriptAnalysis
storeTranscriptAnalysis(id, analysis) ==
    Append(transcripts, [meeting_id |-> id, analysis |-> analysis])

\* utils/webhooks: updateVoiceLibrary
RECURSIVE updateVoiceLibraryFrom(_, _)
updateVoiceLibraryFrom(library, phrases) ==
    IF phrases = <<>> THEN library
    ELSE updateVoiceLibraryFrom(
            IF \E i \in DOMAIN library : library[i] = Head(phrases)
            THEN library ELSE Append(library, Head(phrases)),
            Tail(phrases))

updateVoiceLibrary(phrases) == updateVoiceLibraryFrom(voice_library, phrases)

\* utils/webhooks: storeEmailResponse
storeEmailResponse(id, classification) ==
    Append(email_responses, [message_id |-> id, classification |-> classification])

\* utils/slack: sendSlackMessage then storeNotification
storeNotification(type) == Append(slack_notifications, [type |-> type])

sendSlackMessage(text) == Append(slack_message_history, [text |-> text])

AddEffect(k, agent, writes, notifs) ==
    [effects EXCEPT ![k] = [agent |-> @.agent + agent, writes |-> @.writes + writes,
                            notifs |-> @.notifs + notifs]]

----------------------------------------------------------------------------
(* Webhook endpoints, one process per request *)

\* The request is answered: status and the handler's success flag.
Answer(s, status, success) ==
    [reqs EXCEPT ![s].pc = "done", ![s].status = status, ![s].success = success]

\* An endpoint without its catch block: the exception leaves the function.
Uncaught(slot) == [slot EXCEPT !.pc = "done", !.thrown = TRUE]

\* The catch block that ends every endpoint: 500 Internal server error
Caught(slot) == [slot EXCEPT !.pc = "done", !.status = 500, !.success = FALSE]

\* A request arrives at slot s.
Arrived(s, r) ==
    LET k == Key(r)
        during == {t \in Reqs : Running(t) /\ Key(reqs[t].req) = k}
    IN  [t \in Reqs |->
            IF t = s
            THEN [IdleReq EXCEPT !.req = r,
                     !.after = {u \in Reqs : Done(u)},
                     !.overlap = during # {},
                     !.snap = effects[k]]
            ELSE IF t \in during THEN [reqs[t] EXCEPT !.overlap = TRUE]
            ELSE reqs[t]]

Free(s) ==
    /\ reqs[s].pc = "idle"
    /\ \A t \in Reqs : t < s => Started(t)

Reject401(s, r) ==
    [Arrived(s, r) EXCEPT ![s].pc = "done", ![s].status = 401]

\* The handler is entered and waits for its first Agent Service call.
Enter(s, r, pc) ==
    [Arrived(s, r) EXCEPT ![s].pc = pc, ![s].handled = TRUE]

storesUnchanged ==
    UNCHANGED <<meetings, calendly_meetings, pre_meeting_research, pre_meeting_emails,
                transcripts, voice_library, email_responses, slack_notifications,
                slack_message_history>>

\* api/webhooks: handleCalendlyWebhookEndpoint, to the Monitoring Manager call
\* of handleCalendlyWebhook
handleCalendlyWebhookEndpoint(s, r) ==
    /\ Free(s) /\ r \in CalendlyRequests
    /\ IF Rejected401(r)
       THEN reqs' = Reject401(s, r) /\ UNCHANGED effects
       ELSE reqs' = Enter(s, r, "cal_track") /\ effects' = AddEffect(Key(r), 1, 0, 0)
    /\ storesUnchanged
    /\ UNCHANGED <<clockVars, probe, liVars, batchVars, emailVars, approvals, env>>

\* handleCalendlyWebhook resumes: storeMeetingEvent unless the call threw (the
\* handler catches it); then the endpoint routes on the event: the store
\* write of processMeeting* and its Monitoring Manager call.
CalendlyTracked(s, outcome) ==
    LET r == reqs[s].req
        k == Key(r)
        tracked == outcome # "throw"
        n == IF tracked THEN 1 ELSE 0
    IN
    /\ reqs[s].pc = "cal_track"
    /\ meetings' = IF tracked THEN storeMeetingEvent(r) ELSE meetings
    /\ reqs' = [reqs EXCEPT ![s].pc = "cal_process", ![s].success = tracked]
    /\ CASE r.event = "invitee.created" ->
              /\ calendly_meetings' = storeMeeting(Meeting(r))
              /\ effects' = AddEffect(k, 1, n + 1, 0)
         [] r.event = "invitee.canceled" ->
              /\ calendly_meetings' = updateMeetingStatus(r.id, "canceled")
              /\ effects' = AddEffect(k, 1, n, 0)
         [] r.event = "invitee.rescheduled" ->
              /\ calendly_meetings' = updateMeeting(Meeting(r))
              /\ effects' = AddEffect(k, 1, n, 0)
    /\ UNCHANGED <<clockVars, probe, liVars, batchVars, emailVars, approvals, env, pre_meeting_research,
                   pre_meeting_emails, transcripts, voice_library, email_responses,
                   slack_notifications, slack_message_history>>

\* sendPreMeetingEmail and sendMeetingBookedNotification, which end the
\* created route
BookedTail(s, k, researched) ==
    LET cfg == getCalendlyConfig
        mail == cfg.preMeetingEmailEnabled
        note == getSlackConfig.meetingsBooked
    IN
    /\ pre_meeting_emails' =
          IF mail THEN Append(pre_meeting_emails, [eventId |-> reqs[s].req.id])
          ELSE pre_meeting_emails
    /\ slack_message_history' =
          IF note THEN sendSlackMessage("Meeting booked") ELSE slack_message_history
    /\ slack_notifications' =
          IF note THEN storeNotification("meeting_booked") ELSE slack_notifications
    /\ effects' = AddEffect(k, 0,
                       (IF researched THEN 1 ELSE 0) + (IF mail THEN 1 ELSE 0),
                       IF note THEN 1 ELSE 0)

\* The Monitoring Manager call of processMeetingBooked / Canceled / Rescheduled
\* settles. A rejection reaches the endpoint's catch: 500.
CalendlyProcessed(s, outcome) ==
    LET r == reqs[s].req
        k == Key(r)
    IN
    /\ reqs[s].pc = "cal_process"
    /\ IF outcome = "throw"
       THEN /\ reqs' = [reqs EXCEPT ![s] = Caught(reqs[s])]
            /\ UNCHANGED <<effects, pre_meeting_emails, slack_notifications,
                           slack_message_history>>
       ELSE IF r.event = "invitee.canceled"
       THEN /\ reqs' = Answer(s, 200, reqs[s].success)
            /\ UNCHANGED <<effects, pre_meeting_emails, slack_notifications,
                           slack_message_history>>
       ELSE IF getCalendlyConfig.enablePreMeetingResearch
       THEN \* triggerPreMeetingResearch: the Research Manager call
            /\ reqs' = [reqs EXCEPT ![s].pc = "cal_research"]
            /\ effects' = AddEffect(k, 1, 0, 0)
            /\ UNCHANGED <<pre_meeting_emails, slack_notifications,
                           slack_message_history>>
       ELSE IF r.event = "invitee.created"
       THEN /\ reqs' = Answer(s, 200, reqs[s].success)
            /\ BookedTail(s, k, FALSE)
       ELSE /\ reqs' = Answer(s, 200, reqs[s].success)
            /\ UNCHANGED <<effects, pre_meeting_emails, slack_notifications,
                           slack_message_history>>
    /\ UNCHANGED <<clockVars, probe, liVars, batchVars, emailVars, approvals, env, meetings, calendly_meetings,
                   pre_meeting_research, transcripts, voice_library, email_responses>>

\* The Research Manager call settles; triggerPreMeetingResearch catches a
\* rejection itself.
CalendlyResearched(s, outcome) ==
    LET r == reqs[s].req
        k == Key(r)
        researched == outcome # "throw"
    IN
    /\ reqs[s].pc = "cal_research"
    /\ pre_meeting_research' =
          IF researched THEN Append(pre_meeting_research, [eventId |-> r.id])
          ELSE pre_meeting_research
    /\ reqs' = Answer(s, 200, reqs[s].success)
    /\ IF r.event = "invitee.created"
       THEN BookedTail(s, k, researched)
       ELSE /\ effects' = AddEffect(k, 0, IF researched THEN 1 ELSE 0, 0)
            /\ UNCHANGED <<pre_meeting_emails, slack_notifications,
                           slack_message_history>>
    /\ UNCHANGED <<clockVars, probe, liVars, batchVars, emailVars, approvals, env, meetings, calendly_meetings,
                   transcripts, voice_library, email_responses>>

\* What the Transcript Analyst call may yield: a rejection, a status other
\* than success (no result), or a result with or without winning_phrases.
PhraseLists == {<<"p1">>, <<"p2", "p1">>, <<"p1", "p1">>}

TranscriptOutcomes ==
    [status : {"throw", "error"}, phrases : {None}]
      \cup [status : {"success"}, phrases : {None} \cup {Some(l) : l \in PhraseLists}]

\* What the Response Classifier call may yield
ClassifierOutcomes == {"positive", "neutral", "error", "throw"}

\* api/webhooks: handleOtterWebhookEndpoint, to the Transcript Analyst call of
\* handleOtterWebhook
handleOtterWebhookEndpoint(s, r) ==
    /\ Free(s) /\ r \in OtterRequests
    /\ IF Rejected401(r)
       THEN reqs' = Reject401(s, r) /\ UNCHANGED effects
       ELSE reqs' = Enter(s, r, "otter_analysis") /\ effects' = AddEffect(Key(r), 1, 0, 0)
    /\ storesUnchanged
    /\ UNCHANGED <<clockVars, probe, liVars, batchVars, emailVars, approvals, env>>

\* handleOtterWebhook resumes: the analysis is stored and the voice library
\* updated; a rejection is caught and reported in the body, under status 200.
OtterAnalysed(s, out) ==
    LET r == reqs[s].req IN
    /\ reqs[s].pc = "otter_analysis"
    /\ IF out.status = "throw"
       THEN /\ reqs' = Answer(s, 200, FALSE)
            /\ UNCHANGED <<transcripts, voice_library, effects>>
       ELSE /\ reqs' = Answer(s, 200, TRUE)
            /\ transcripts' = storeTranscriptAnalysis(r.id, out.phrases)
            /\ voice_library' = IF out.phrases # None THEN updateVoiceLibrary(Get(out.phrases))
                                ELSE voice_library
            /\ effects' = AddEffect(Key(r), 0, 1, 0)
    /\ UNCHANGED <<clockVars, probe, liVars, batchVars, emailVars, approvals, env, meetings, calendly_meetings,
                   pre_meeting_research, pre_meeting_emails, email_responses,
                   slack_notifications, slack_message_history>>

\* api/webhooks: handleFirefliesWebhookEndpoint
handleFirefliesWebhookEndpoint(s, r) ==
    /\ Free(s) /\ r \in FirefliesRequests
    /\ IF Rejected401(r)
       THEN reqs' = Reject401(s, r) /\ UNCHANGED effects
       ELSE reqs' = Enter(s, r, "fireflies_analysis")
            /\ effects' = AddEffect(Key(r), 1, 0, 0)
    /\ storesUnchanged
    /\ UNCHANGED <<clockVars, probe, liVars, batchVars, emailVars, approvals, env>>

\* handleFirefliesWebhook resumes: the analysis is stored (the voice library
\* is not touched).
FirefliesAnalysed(s, out) ==
    LET r == reqs[s].req IN
    /\ reqs[s].pc = "fireflies_analysis"
    /\ IF out.status = "throw"
       THEN /\ reqs' = Answer(s, 200, FALSE)
            /\ UNCHANGED <<transcripts, effects>>
       ELSE /\ reqs' = Answer(s, 200, TRUE)
            /\ transcripts' = storeTranscriptAnalysis(r.id, out.phrases)
            /\ effects' = AddEffect(Key(r), 0, 1, 0)
    /\ UNCHANGED <<clockVars, probe, liVars, batchVars, emailVars, approvals, env, meetings, calendly_meetings,
                   pre_meeting_research, pre_meeting_emails, voice_library,
                   email_responses, slack_notifications, slack_message_history>>

\* api/webhooks: handleGmailWebhookEndpoint (no verification), to the
\* Response Classifier call of handleGmailResponse
handleGmailWebhookEndpoint(s, r) ==
    /\ Free(s) /\ r \in GmailRequests
    /\ reqs' = Enter(s, r, "gmail_classify")
    /\ effects' = AddEffect(Key(r), 1, 0, 0)
    /\ storesUnchanged
    /\ UNCHANGED <<clockVars, probe, liVars, batchVars, emailVars, approvals, env>>

\* handleGmailResponse resumes: the classification is stored; on positive
\* the handler calls sendSlackNotification and then the endpoint calls
\* sendPositiveResponseNotification.
GmailClassified(s, out) ==
    LET r == reqs[s].req
        positive == out = "positive"
        note == positive /\ getSlackConfig.positiveResponses
    IN
    /\ reqs[s].pc = "gmail_classify"
    /\ IF out = "throw"
       THEN /\ reqs' = Answer(s, 200, FALSE)
            /\ UNCHANGED <<email_responses, slack_notifications,
                           slack_message_history, effects>>
       ELSE /\ reqs' = Answer(s, 200, TRUE)
            /\ email_responses' =
                  storeEmailResponse(r.id, IF out = "error" THEN NULL ELSE out)
            /\ slack_message_history' =
                  IF note THEN sendSlackMessage("Positive response")
                  ELSE slack_message_history
            /\ slack_notifications' =
                  IF note THEN storeNotification("positive_response")
                  ELSE slack_notifications
            /\ effects' = AddEffect(Key(r), 0, 1,
                              (IF positive THEN 1 ELSE 0) + (IF note THEN 1 ELSE 0))
    /\ UNCHANGED <<clockVars, probe, liVars, batchVars, emailVars, approvals, env, meetings, calendly_meetings,
                   pre_meeting_research, pre_meeting_emails, transcripts, voice_library>>

\* api/webhooks: handleSlackInteractionEndpoint with handleSlackInteraction,
\* which has no await that waits and so runs to its end. The outreach id is
\* the action's value.
handleSlackInteractionEndpoint(s, r) ==
    /\ Free(s) /\ r \in SlackRequests
    /\ IF Rejected401(r)
       THEN /\ reqs' = Reject401(s, r)
            /\ UNCHANGED <<approvals, effects>>
       ELSE /\ reqs' = [Enter(s, r, "done") EXCEPT ![s].status = 200, ![s].success = TRUE]
            /\ IF r.event = "approve"
               THEN /\ approvals' = handleApproval(r.id, "approved", r.user)
                    /\ effects' = AddEffect(Key(r), 0, 1, 0)
               ELSE IF r.event = "reject"
               THEN /\ approvals' = handleApproval(r.id, "rejected", r.user)
                    /\ effects' = AddEffect(Key(r), 0, 1, 0)
               ELSE UNCHANGED <<approvals, effects>>
    /\ storesUnchanged
    /\ UNCHANGED <<clockVars, probe, liVars, batchVars, emailVars, env>>

----------------------------------------------------------------------------
(* The approval decision as the send pipeline's specification sees it: the  *)
(* writer of the approvals store, called with the clock running.            *)

Decide(id, status, user) ==
    /\ approvals' = handleApproval(id, status, user)
    /\ UNCHANGED <<clockVars, probe, liVars, batchVars, emailVars, hookVars>>

----------------------------------------------------------------------------
(* Webhook endpoints: bodies of the wrong shape, failing stores *)

\* null, an object without the fields the endpoint reads, a string
BodyShapes == {"null", "empty", "text"}

MalformedRequests ==
    [provider : Providers, event : {"malformed"}, id : BodyShapes,
     sig : Signatures, start : {NULL}, user : {NULL}]

\* A body of the wrong shape arrives. The Slack and Gmail endpoints answer
\* 400 to a body without payload or message.data; a handler that reads the
\* body before its try (its first console.log) or an endpoint that reads it
\* after the handler returned throws into the endpoint's catch; a handler
\* that reads it inside its try answers success: false under status 200.
EndpointMalformed(s, r) ==
    LET p == r.provider
        shape == r.id
        slot == [IdleReq EXCEPT !.req = r, !.after = {u \in Reqs : Done(u)}]
        answered(status, success) ==
            [slot EXCEPT !.pc = "done", !.status = status, !.success = success]
        \* the endpoint has called its handler with the body
        dispatched == [slot EXCEPT !.handled = TRUE]
        handler(status, success) ==
            [dispatched EXCEPT !.pc = "done", !.status = status, !.success = success]
    IN
    /\ Free(s) /\ r \in MalformedRequests
    /\ reqs' = [reqs EXCEPT ![s] =
          IF (p = "slack" /\ shape = "text") \/ (p = "gmail" /\ shape # "null")
          THEN answered(400, FALSE)
          ELSE IF Rejected401(r) THEN answered(401, FALSE)
          ELSE IF p = "gmail" THEN Caught(slot)
          ELSE IF shape = "null" \/ p = "calendly" THEN Caught(dispatched)
          ELSE IF p = "slack" THEN handler(200, TRUE)
          ELSE handler(200, FALSE)]
    /\ storesUnchanged
    /\ UNCHANGED <<clockVars, probe, liVars, batchVars, emailVars, approvals, env, effects>>

\* localStorage.setItem throws in the store write that follows the handler's
\* Agent Service call. The transcript and reply handlers write inside their
\* try and answer success: false; on the booking route the write of
\* processMeeting* is outside any try but the endpoint's.
StorageFailed(s) ==
    /\ reqs[s].pc \in {"cal_track", "otter_analysis", "fireflies_analysis", "gmail_classify"}
    /\ reqs' = IF reqs[s].pc = "cal_track"
               THEN [reqs EXCEPT ![s] = Caught(reqs[s])]
               ELSE Answer(s, 200, FALSE)
    /\ storesUnchanged
    /\ UNCHANGED <<clockVars, probe, liVars, batchVars, emailVars, approvals, env, effects>>

----------------------------------------------------------------------------
(* Slack notifications module: button interactions *)

UserIds == {"U1"}

\* handleSlackApproval({action, outreachId, userId, userName}): the entry of
\* the item is replaced, whatever the action; nothing is returned.
handleSlackApproval(action, outreachId, userId, userName) ==
    /\ action \in SlackActions
    /\ approvals' = [approvals EXCEPT ![outreachId] =
                        Some([action |-> action, userId |-> userId,
                              userName |-> userName, timestamp |-> Now,
                              source |-> "slack"])]
    /\ probe' = [fn |-> "handleSlackApproval", action |-> action,
                 outreachId |-> outreachId, userName |-> userName]
    /\ UNCHANGED <<clockVars, emailVars, hookVars, liVars, batchVars>>

\* Strings whose characters matter are sequences of characters.
APPROVE == <<"a", "p", "p", "r", "o", "v", "e", "_">>
REJECT == <<"r", "e", "j", "e", "c", "t", "_">>
EDIT == <<"e", "d", "i", "t", "_">>

MaxIdLen == 3
IdChars == {"o", "1", "_"}

RECURSIVE StringsUpTo(_)
StringsUpTo(n) ==
    IF n = 0 THEN {<<>>}
    ELSE LET shorter == StringsUpTo(n - 1)
         IN  shorter \cup {Append(w, c) : w \in shorter, c \in IdChars}

\* Outreach ids as the notification carries them: short ids, and ids that
\* themselves begin with the prefix of an action
ButtonIds ==
    StringsUpTo(MaxIdLen)
        \cup {APPROVE \o <<"o", "1">>, REJECT \o <<"o", "1">>, EDIT \o <<"o", "1">>,
              REJECT, EDIT \o APPROVE}

\* String.prototype.includes
includes(str, prefix) ==
    \E i \in 0..(Len(str) - Len(prefix)) : SubSeq(str, i + 1, i + Len(prefix)) = prefix

\* String.prototype.startsWith
startsWith(str, prefix) ==
    /\ Len(str) >= Len(prefix)
    /\ SubSeq(str, 1, Len(prefix)) = prefix

\* buildApprovalBlocks(notification): the elements of the actions block
buildApprovalBlocks(outreachId) ==
    << [text |-> "Approve", action_id |-> APPROVE \o outreachId, value |-> outreachId],
       [text |-> "Edit", action_id |-> EDIT \o outreachId, value |-> outreachId],
       [text |-> "Reject", action_id |-> REJECT \o outreachId, value |-> outreachId] >>

\* handleSlackInteraction on a block_actions payload whose first action is
\* the clicked button: the action taken and the outreach id it is taken on.
handleSlackInteraction(action) ==
    IF startsWith(action.action_id, APPROVE)
    THEN [action |-> "approve", outreachId |-> action.value]
    ELSE IF startsWith(action.action_id, REJECT)
    THEN [action |-> "reject", outreachId |-> action.value]
    ELSE IF startsWith(action.action_id, EDIT)
    THEN [action |-> "edit", outreachId |-> action.value]
    ELSE [action |-> NULL, outreachId |-> NULL]

\* An approval notification for the outreach is built.
ApprovalRequested(outreachId) ==
    /\ probe' = [fn |-> "buildApprovalBlocks", outreachId |-> outreachId,
                 elements |-> buildApprovalBlocks(outreachId)]
    /\ UNCHANGED <<clockVars, emailVars, approvals, hookVars, liVars, batchVars>>

\* One of the buttons of the notification is clicked and the payload comes
\* back to the interactive-action handler.
ButtonClicked(i) ==
    /\ probe.fn \in {"buildApprovalBlocks", "handleSlackInteraction"}
    /\ i \in DOMAIN probe.elements
    /\ probe' = [fn |-> "handleSlackInteraction", outreachId |-> probe.outreachId,
                 elements |-> probe.elements, clicked |-> probe.elements[i],
                 resolved |-> handleSlackInteraction(probe.elements[i])]
    /\ UNCHANGED <<clockVars, emailVars, approvals, hookVars, liVars, batchVars>>

----------------------------------------------------------------------------
(* Query operations, each called by itself: what it returned is kept in probe *)

\* canSendToday()
CanSendTodayQueried ==
    /\ probe' = [fn |-> "canSendToday", result |-> canSendToday]
    /\ gmail_first_send_date' = FirstSendAfterCanSend
    /\ UNCHANGED <<clockVars, gmail_config, gmail_sent, sent_emails, calls, recorded,
                   okCalls, approvals, hookVars, liVars, batchVars>>

\* getEmailStats(): the fields about today. dailyLimit is computed with
\* getWarmupLimit() whatever warmupEnabled is; canSendMore is canSendToday().
EmailStatsQueried ==
    /\ probe' = [fn |-> "getEmailStats", totalSent |-> Len(sent_emails),
                 sentToday |-> getTodaySentCount,
                 dailyLimit |-> Min(getWarmupLimit, getEmailConfig.dailyLimit),
                 canSendMore |-> canSendToday]
    /\ gmail_first_send_date' = FirstSendAfterAge(gmail_first_send_date)
    /\ UNCHANGED <<clockVars, gmail_config, gmail_sent, sent_emails, calls, recorded,
                   okCalls, approvals, hookVars, liVars, batchVars>>

\* getTodaySentCount()
TodaySentCountQueried ==
    /\ probe' = [fn |-> "getTodaySentCount", result |-> getTodaySentCount]
    /\ UNCHANGED <<clockVars, emailVars, approvals, hookVars, liVars, batchVars>>

\* canPerformAction(actionType)
CanPerformActionQueried(actionType) ==
    /\ probe' = [fn |-> "canPerformAction", actionType |-> actionType,
                 result |-> canPerformAction(actionType)]
    /\ UNCHANGED <<clockVars, emailVars, approvals, hookVars, liVars, batchVars>>

\* getLinkedInStats()
LinkedInStatsQueried ==
    /\ probe' = [fn |-> "getLinkedInStats", today |-> getTodayLinkedInStats,
                 canSendConnection |-> canPerformAction("connection"),
                 canSendInMail |-> canPerformAction("inmail"),
                 nextAvailableAction |-> getNextAvailableTime]
    /\ UNCHANGED <<clockVars, emailVars, approvals, hookVars, liVars, batchVars>>

----------------------------------------------------------------------------
(* Slack notifications module: the daily digest *)

\* Digests sent in one behaviour
MaxDigests == 3

\* new Date(t).toDateString(): the calendar day of an instant
DayOf(t) == t \div MinutesPerDay

\* localStorage 'approval_queue': no function of the repository writes the key
approval_queue == <<>>

\* array.filter(e => new Date(e.<field>).toDateString() === today).length
CountToday(store, stamp(_)) ==
    Cardinality({i \in DOMAIN store : DayOf(stamp(store[i])) = day})

sentAtOf(e) == e.sentAt
timestampOf(r) == r.timestamp
startTimeOf(m) == m.start_time

\* Math.round((a / b) * 100), a and b natural numbers, b > 0
RoundedPercent(a, b) == (200 * a + b) \div (2 * b)

\* A digest that reports what was added since the previous digest of the day
gatherDailyStatsSinceLastDigest ==
    LET todaySent == CountToday(sent_emails, sentAtOf)
        todayResponses == CountToday(email_responses, timestampOf)
        todayMeetings == CountToday(meetings, startTimeOf)
        since(n, field) ==
            IF probe.fn = "sendDailyDigest" /\ probe.day = day THEN n - field ELSE n
    IN  [outreachSent |-> since(todaySent, probe.total),
         responses |-> todayResponses,
         responseRate |-> IF todaySent > 0 THEN RoundedPercent(todayResponses, todaySent)
                          ELSE 0,
         meetingsBooked |-> todayMeetings,
         pendingApprovals |-> Len(approval_queue)]

\* gatherDailyStats()
gatherDailyStats ==
    LET todaySent == CountToday(sent_emails, sentAtOf)
        todayResponses == CountToday(email_responses, timestampOf)
        todayMeetings == CountToday(meetings, startTimeOf)
    IN  [outreachSent |-> todaySent,
         responses |-> todayResponses,
         responseRate |-> IF todaySent > 0 THEN RoundedPercent(todayResponses, todaySent)
                          ELSE 0,
         meetingsBooked |-> todayMeetings,
         pendingApprovals |-> Len(approval_queue)]

\* sendDailyDigest(): the statistics are gathered, the digest is sent (kept in
\* the message history) and the notification is stored.
sendDailyDigest ==
    LET stats == gatherDailyStats IN
    /\ getSlackConfig.dailyDigest
    /\ Len(slack_notifications) < MaxDigests
    /\ slack_message_history' =
          Append(slack_message_history,
                 [text |-> "Daily Revenue Engine Digest", blocks |-> stats])
    /\ slack_notifications' = storeNotification("daily_digest")
    /\ probe' = [fn |-> "sendDailyDigest", day |-> day, stats |-> stats,
                 total |-> CountToday(sent_emails, sentAtOf),
                 snap |-> <<sent_emails, email_responses, meetings, approval_queue>>]
    /\ UNCHANGED <<clockVars, emailVars, approvals, liVars, batchVars, env, reqs,
                   meetings, calendly_meetings, pre_meeting_research, pre_meeting_emails,
                   transcripts, voice_library, email_responses, effects>>

----------------------------------------------------------------------------
(* Specifications *)

\* Every store empty but the day's send counter: p sends were made earlier
\* today.
InitRestAfter(p) ==
    /\ probe = NoCall
    /\ gmail_sent = [d \in Days |-> IF d = 0 THEN p ELSE 0]
    /\ sent_emails = <<>>
    /\ approvals = [o \in OutreachIds |-> None]
    /\ calls = [c \in Calls |-> IdleCall]
    /\ recorded = [d \in Days |-> IF d = 0 THEN p ELSE 0]
    /\ okCalls = [d \in Days |-> IF d = 0 THEN p ELSE 0]
    /\ reqs = [s \in Reqs |-> IdleReq]
    /\ meetings = <<>>
    /\ calendly_meetings = <<>>
    /\ pre_meeting_research = <<>>
    /\ pre_meeting_emails = <<>>
    /\ transcripts = <<>>
    /\ voice_library = <<>>
    /\ email_responses = <<>>
    /\ slack_notifications = <<>>
    /\ slack_message_history = <<>>
    /\ effects = [k \in Keys |-> NoEffect]
    /\ emailBatch = IdleBatch
    /\ liBatch = IdleBatch

InitCoreAfter(p) ==
    /\ gmail_config = None
    /\ gmail_first_send_date = None
    /\ InitRestAfter(p)

InitLinkedInRest ==
    /\ linkedin_connections = [d \in Days |-> 0]
    /\ linkedin_inmails = [d \in Days |-> 0]
    /\ linkedin_last_action = None
    /\ linkedin_actions = <<>>
    /\ liCalls = [c \in LiCalls |-> IdleLiCall]

InitLinkedInStores ==
    /\ linkedin_config = None
    /\ InitLinkedInRest

InitStoresAfter(p) == InitCoreAfter(p) /\ InitLinkedInStores

InitStores == InitStoresAfter(0)

\* The Gmail channel: the clock, the Gmail configuration and concurrent
\* sendOutreachEmail calls, all for one outreach (the sender does not look at
\* the id). No webhook secret matters. The first day starts
\* in a fresh browser, or after EarlierSends sends and disconnectGmail, which
\* removes the configuration, the first send date and the stored emails and
\* leaves the day's counter.
Init ==
    /\ day = 0
    /\ tod \in TimesOfDay
    /\ env = [p \in SecretProviders |-> FALSE]
    /\ \E p \in {0, EarlierSends} : InitStoresAfter(p)

InitApproval ==
    /\ day = 0
    /\ tod \in TimesOfDay
    /\ env = [p \in SecretProviders |-> FALSE]
    /\ InitStores

Next ==
    \/ Tick
    \/ \E dl \in DailyLimits, we \in BOOLEAN : updateEmailConfig(dl, we)
    \/ \E c \in Calls : SendStart(c, "o1")
    \/ \E c \in Calls : SendRecorded(c)
    \/ \E c \in Calls, o \in AgentOutcomes : SendNotified(c, o)
    \/ \E c \in Calls : SendReturn(c)

Spec == Init /\ [][Next]_vars

\* The approval pipeline: approval decisions by one approver, with the clock
\* running, and one caller of sendOutreachEmail under the default
\* configuration.
Approvers == {"alice"}

NextApproval ==
    \/ Tick
    \/ \E id \in OutreachIds, st \in {"approved", "rejected"}, u \in Approvers :
          Decide(id, st, u)
    \/ \E id \in OutreachIds : SendStart(1, id)
    \/ SendRecorded(1)
    \/ \E o \in AgentOutcomes : SendNotified(1, o)
    \/ SendReturn(1)

SpecApproval == InitApproval /\ [][NextApproval]_vars

\* The webhook endpoints: NumReqs requests processed concurrently, in a
\* deployment with every secret configured or with none (an endpoint reads no
\* secret but its own). One specification per family of endpoints.
InitWebhook ==
    /\ day = 0
    /\ tod = 720
    /\ \E b \in BOOLEAN : env = [p \in SecretProviders |-> b]
    /\ InitStores

\* Booking events
NextCalendly ==
    \/ \E s \in Reqs, r \in CalendlyRequests : handleCalendlyWebhookEndpoint(s, r)
    \/ \E s \in Reqs, o \in AgentOutcomes : CalendlyTracked(s, o)
    \/ \E s \in Reqs, o \in AgentOutcomes : CalendlyProcessed(s, o)
    \/ \E s \in Reqs, o \in AgentOutcomes : CalendlyResearched(s, o)

SpecCalendly == InitWebhook /\ [][NextCalendly]_vars

\* Transcripts and inbound replies
NextInbound ==
    \/ \E s \in Reqs, r \in OtterRequests : handleOtterWebhookEndpoint(s, r)
    \/ \E s \in Reqs, o \in TranscriptOutcomes : OtterAnalysed(s, o)
    \/ \E s \in Reqs, r \in FirefliesRequests : handleFirefliesWebhookEndpoint(s, r)
    \/ \E s \in Reqs, o \in TranscriptOutcomes : FirefliesAnalysed(s, o)
    \/ \E s \in Reqs, r \in GmailRequests : handleGmailWebhookEndpoint(s, r)
    \/ \E s \in Reqs, o \in ClassifierOutcomes : GmailClassified(s, o)

SpecInbound == InitWebhook /\ [][NextInbound]_vars

\* Interactive actions
NextSlack ==
    \E s \in Reqs, r \in SlackRequests : handleSlackInteractionEndpoint(s, r)

SpecSlack == InitWebhook /\ [][NextSlack]_vars

\* Every endpoint, with requests of one event id whose signature is the
\* expected one, bodies of the wrong shape and failing stores.
WellFormed(requests) ==
    {r \in requests : r.sig = "valid" /\ r.id \in {"e1", "o1"}
                          /\ r.start \in {NULL, "2026-01-20T10:00Z"}
                          /\ r.user \in {NULL, "alice"}}

NextRouter ==
    \/ \E s \in Reqs, r \in MalformedRequests : EndpointMalformed(s, r)
    \/ \E s \in Reqs : StorageFailed(s)
    \/ \E s \in Reqs, r \in WellFormed(CalendlyRequests) :
          handleCalendlyWebhookEndpoint(s, r)
    \/ \E s \in Reqs, o \in AgentOutcomes : CalendlyTracked(s, o)
    \/ \E s \in Reqs, o \in AgentOutcomes : CalendlyProcessed(s, o)
    \/ \E s \in Reqs, o \in AgentOutcomes : CalendlyResearched(s, o)
    \/ \E s \in Reqs, r \in WellFormed(OtterRequests) : handleOtterWebhookEndpoint(s, r)
    \/ \E s \in Reqs, o \in TranscriptOutcomes : OtterAnalysed(s, o)
    \/ \E s \in Reqs, r \in WellFormed(FirefliesRequests) :
          handleFirefliesWebhookEndpoint(s, r)
    \/ \E s \in Reqs, o \in TranscriptOutcomes : FirefliesAnalysed(s, o)
    \/ \E s \in Reqs, r \in WellFormed(GmailRequests) : handleGmailWebhookEndpoint(s, r)
    \/ \E s \in Reqs, o \in ClassifierOutcomes : GmailClassified(s, o)
    \/ \E s \in Reqs, r \in WellFormed(SlackRequests) :
          handleSlackInteractionEndpoint(s, r)

SpecRouter == InitWebhook /\ [][NextRouter]_vars

\* Interactive actions through both handlers that accept them: the endpoint's
\* handleSlackInteraction and the notification module's handleSlackApproval.
NextInteractive ==
    \/ \E s \in Reqs, r \in WellFormed(SlackRequests) :
          handleSlackInteractionEndpoint(s, r)
    \/ \E a \in SlackActions, id \in OutreachIds, u \in Users :
          handleSlackApproval(a, id, "U1", u)

SpecInteractive == InitWebhook /\ [][NextInteractive]_vars

\* Approval notifications and the clicks on their buttons
NextButtons ==
    \/ \E id \in ButtonIds : ApprovalRequested(id)
    \/ \E i \in 1..3 : ButtonClicked(i)

SpecButtons == InitWebhook /\ [][NextButtons]_vars

\* The warmup ramp: getWarmupLimit() called at any time of the first
\* MaxRampDay days, by an account that has not sent yet or whose first send
\* was on day 0.
MaxRampDay == 22

InitWarmup ==
    /\ day \in 0..MaxRampDay
    /\ tod \in TimesOfDay
    /\ env = [p \in SecretProviders |-> FALSE]
    /\ gmail_config = None
    /\ gmail_first_send_date \in {None} \cup {Some(t) : t \in TimesOfDay}
    /\ InitRestAfter(0)
    /\ InitLinkedInStores

NextWarmup == WarmupLimitQueried

SpecWarmup == InitWarmup /\ [][NextWarmup]_vars

\* The window checks of both channels, called at a time of day of
\* WindowTimes under a sending schedule of Windows (start, end), one of them
\* with its start after its end, or under the default configuration.
WindowTimes == {0, 359, 360, 361, 539, 540, 599, 600, 605, 720, 1019, 1020, 1021,
                1320, 1439}
Windows == {<<540, 1020>>, <<1320, 360>>, <<0, 1439>>, <<720, 720>>, <<600, 605>>}

InitWindow ==
    /\ day = 0
    /\ tod \in WindowTimes
    /\ env = [p \in SecretProviders |-> FALSE]
    /\ gmail_config \in
          {None} \cup {Some([DEFAULT_CONFIG EXCEPT !.startTime = HHMM(w[1]),
                                                  !.endTime = HHMM(w[2])]) : w \in Windows}
    /\ gmail_first_send_date = None
    /\ InitRestAfter(0)
    /\ linkedin_config \in
          {None} \cup {Some([LINKEDIN_DEFAULT_CONFIG EXCEPT !.startTime = HHMM(w[1]),
                                                           !.endTime = HHMM(w[2])]) :
                          w \in Windows}
    /\ InitLinkedInRest

NextWindow ==
    \/ EmailWindowChecked
    \/ LinkedInWindowChecked

SpecWindow == InitWindow /\ [][NextWindow]_vars

\* The daily digest: the stores it aggregates hold responses and meetings of
\* day 0 or day 1, emails are sent one at a time, the clock runs, and the
\* digest is sent up to MaxDigests times.
StampTimes == {720, MinutesPerDay + 720}

StoredUpToOne(records) == {<<>>} \cup {<<r>> : r \in records}

InitDigest ==
    /\ day = 0
    /\ tod \in TimesOfDay
    /\ env = [p \in SecretProviders |-> FALSE]
    /\ gmail_config = None
    /\ gmail_first_send_date = None
    /\ gmail_sent = [d \in Days |-> 0]
    /\ sent_emails = <<>>
    /\ approvals = [o \in OutreachIds |-> None]
    /\ calls = [c \in Calls |-> IdleCall]
    /\ recorded = [d \in Days |-> 0]
    /\ okCalls = [d \in Days |-> 0]
    /\ reqs = [s \in Reqs |-> IdleReq]
    /\ meetings \in StoredUpToOne([event_type : {"invitee.created"},
                                   start_time : StampTimes, status : {"scheduled"}])
    /\ calendly_meetings = <<>>
    /\ pre_meeting_research = <<>>
    /\ pre_meeting_emails = <<>>
    /\ transcripts = <<>>
    /\ voice_library = <<>>
    /\ email_responses \in StoredUpToOne([message_id : {"e1"}, classification : {"neutral"},
                                          timestamp : StampTimes])
    /\ slack_notifications = <<>>
    /\ slack_message_history = <<>>
    /\ effects = [k \in Keys |-> NoEffect]
    /\ emailBatch = IdleBatch
    /\ liBatch = IdleBatch
    /\ probe = NoCall
    /\ InitLinkedInStores

NextDigest ==
    \/ sendDailyDigest
    \/ Tick
    \/ SendStart(1, "o1")
    \/ SendRecorded(1)
    \/ \E o \in AgentOutcomes : SendNotified(1, o)
    \/ SendReturn(1)

SpecDigest == InitDigest /\ [][NextDigest]_vars

\* The LinkedIn channel: the clock, the LinkedIn configuration and concurrent
\* sendConnectionRequest / sendInMail calls.
InitLinkedIn ==
    /\ day = 0
    /\ tod \in LinkedInTimes
    /\ env = [p \in SecretProviders |-> FALSE]
    /\ InitStores

NextLinkedIn ==
    \/ Advance(LinkedInTimes)
    \/ \E cl \in ActionLimits, dl \in ActionDelays, sf \in BOOLEAN :
          updateLinkedInConfig(cl, 1, dl, sf)
    \/ \E c \in LiCalls, k \in ActionTypes : LiStart(c, k)
    \/ \E c \in LiCalls, o \in AgentOutcomes : LiSettled(c, o)
    \/ \E c \in LiCalls : LiReturn(c)

SpecLinkedIn == InitLinkedIn /\ [][NextLinkedIn]_vars

\* One operation at a time. An Email operation is in progress while a
\* sendOutreachEmail call or a batchSendEmails loop has not returned, a
\* LinkedIn operation while a sendConnectionRequest / sendInMail call or a
\* batchSendConnections loop has not returned.
EmailIdle == calls[1].pc = "idle" /\ emailBatch.pc = "idle"

LinkedInIdle == liCalls[1].pc = "idle" /\ liBatch.pc = "idle"

SeqDailyLimits == DailyLimits \cup {DEFAULT_CONFIG.dailyLimit}

\* The day starts after EarlierSends sends and disconnectGmail.
InitSeq ==
    /\ day = 0
    /\ tod \in TimesOfDay
    /\ env = [p \in SecretProviders |-> FALSE]
    /\ InitStoresAfter(EarlierSends)

\* The Email channel, its operations called one after the other by a single
\* caller: sends, batch sends, configuration updates, statistics queries and
\* disconnectGmail.
NextEmailSeq ==
    \/ Tick
    \/ \E dl \in SeqDailyLimits, we \in BOOLEAN : EmailIdle /\ updateEmailConfig(dl, we)
    \/ EmailIdle /\ getEmailStats
    \/ EmailIdle /\ disconnectGmail
    \/ EmailIdle /\ TotalRecorded < EarlierSends + MaxSent /\ SendStart(1, "o1")
    \/ SendRecorded(1)
    \/ \E o \in AgentOutcomes : SendNotified(1, o)
    \/ emailBatch.pc = "idle" /\ SendReturn(1)
    \/ \E k \in BatchSizes : EmailIdle /\ batchSendEmails(k)
    \/ EmailBatchItem
    \/ EmailBatchCollect
    \/ EmailBatchReturn

SpecEmailSeq == InitSeq /\ [][NextEmailSeq]_vars

\* The LinkedIn channel, its operations called one after the other by a
\* single caller.
InitLinkedInSeq ==
    /\ day = 0
    /\ tod \in LinkedInTimes
    /\ env = [p \in SecretProviders |-> FALSE]
    /\ InitStores

NextLinkedInSeq ==
    \/ Advance(LinkedInTimes)
    \/ \E cl \in ActionLimits, il \in ActionLimits, sf \in BOOLEAN :
          LinkedInIdle /\ updateLinkedInConfig(cl, il, 60, sf)
    \/ \E k \in ActionTypes : LinkedInIdle /\ LiStart(1, k)
    \/ \E o \in AgentOutcomes : LiSettled(1, o)
    \/ liBatch.pc = "idle" /\ LiReturn(1)
    \/ \E k \in BatchSizes : LinkedInIdle /\ batchSendConnections(k)
    \/ LiBatchItem
    \/ \E e \in RandomDelays : LiBatchCollect(e)
    \/ LiBatchReturn

SpecLinkedInSeq == InitLinkedInSeq /\ [][NextLinkedInSeq]_vars

\* The connection requests and InMails counted so far, over all days
RECURSIVE LiCountedUpTo(_)
LiCountedUpTo(d) ==
    linkedin_connections[d] + linkedin_inmails[d]
        + (IF d = 0 THEN 0 ELSE LiCountedUpTo(d - 1))

LiCounted == LiCountedUpTo(MaxDay)

\* Every LinkedIn operation that issues an external call, called one after
\* the other by a single caller, with configuration updates and
\* disconnectLinkedIn.
NextLinkedInAll ==
    \/ Advance(LinkedInTimes)
    \/ \E cl \in ActionLimits, dl \in ActionDelays :
          LinkedInIdle /\ updateLinkedInConfig(cl, 1, dl, TRUE)
    \/ \E k \in ActionTypes : LinkedInIdle /\ LiCounted < MaxActions /\ LiStart(1, k)
    \/ \E o \in AgentOutcomes : LiSettled(1, o)
    \/ LinkedInIdle /\ EngageStart(1)
    \/ \E o \in AgentOutcomes : EngageSettled(1, o)
    \/ LinkedInIdle /\ AdvancedStart(1)
    \/ \E o \in AgentOutcomes : AdvancedSettled(1, o)
    \/ LiReturn(1)
    \/ LinkedInIdle /\ disconnectLinkedIn

SpecLinkedInAll == InitLinkedInSeq /\ [][NextLinkedInAll]_vars

\* The query operations of both channels, called between a send, Gmail
\* configuration updates and clock ticks, one operation at a time.
NextQueries ==
    \/ Tick
    \/ \E dl \in SeqDailyLimits, we \in BOOLEAN : EmailIdle /\ updateEmailConfig(dl, we)
    \/ EmailIdle /\ TotalRecorded < EarlierSends + 1 /\ SendStart(1, "o1")
    \/ SendRecorded(1)
    \/ \E o \in AgentOutcomes : SendNotified(1, o)
    \/ SendReturn(1)
    \/ EmailIdle /\ CanSendTodayQueried
    \/ EmailIdle /\ WarmupLimitQueried
    \/ EmailIdle /\ EmailStatsQueried
    \/ EmailIdle /\ TodaySentCountQueried
    \/ EmailIdle /\ EmailWindowChecked
    \/ \E k \in ActionTypes : EmailIdle /\ CanPerformActionQueried(k)
    \/ EmailIdle /\ LinkedInStatsQueried

SpecQueries == InitSeq /\ [][NextQueries]_vars

\* The two batch senders. The channels share no storage key, so a behaviour
\* runs the batch sender of one of them, again and again, with configuration
\* updates between two batches.
EmailUnused == gmail_config = None /\ gmail_first_send_date = None /\ EmailIdle

LinkedInUnused == linkedin_config = None /\ linkedin_actions = <<>> /\ LinkedInIdle

NextBatch ==
    \/ Advance(LinkedInTimes)
    \/ \E dl \in DailyLimits, we \in BOOLEAN :
          LinkedInUnused /\ EmailIdle /\ updateEmailConfig(dl, we)
    \/ \E k \in BatchSizes : LinkedInUnused /\ EmailIdle /\ batchSendEmails(k)
    \/ LinkedInUnused /\ EmailBatchItem
    \/ LinkedInUnused /\ SendRecorded(1)
    \/ \E o \in AgentOutcomes : LinkedInUnused /\ SendNotified(1, o)
    \/ LinkedInUnused /\ EmailBatchCollect
    \/ LinkedInUnused /\ EmailBatchReturn
    \/ \E cl \in ActionLimits, dl \in ActionDelays :
          EmailUnused /\ LinkedInIdle /\ updateLinkedInConfig(cl, 1, dl, TRUE)
    \/ \E k \in BatchSizes : EmailUnused /\ LinkedInIdle /\ batchSendConnections(k)
    \/ EmailUnused /\ LiBatchItem
    \/ \E o \in AgentOutcomes : EmailUnused /\ LiSettled(1, o)
    \/ \E e \in RandomDelays : EmailUnused /\ LiBatchCollect(e)
    \/ EmailUnused /\ LiBatchReturn

InitBatch ==
    /\ day = 0
    /\ tod \in LinkedInTimes
    /\ env = [p \in SecretProviders |-> FALSE]
    /\ InitStoresAfter(EarlierSends)

SpecBatch == InitBatch /\ [][NextBatch]_vars

----------------------------------------------------------------------------
(* The batch jobs under fair scheduling *)

\* The last moment the clock reaches
EndOfTime ==
    MaxDay * MinutesPerDay + CHOOSE t \in LinkedInTimes : \A u \in LinkedInTimes : u <= t

\* The sleep that a success at this moment starts ends while the clock runs.
SleepEndsInTime == Now + liBatch.delay + 30 <= EndOfTime

\* The loop takes up a settled sendConnectionRequest in the tick it settles
\* in, before the clock moves.
TimePasses == liCalls[1].pc # "done" /\ Advance(LinkedInTimes)

\* One batch at a time on a channel nothing else uses, of a size whose
\* sends all fit under MaxSent and MaxActions.
NextTermination ==
    \/ TimePasses
    \/ \E dl \in DailyLimits, we \in BOOLEAN :
          /\ LinkedInUnused /\ EmailIdle /\ TotalRecorded = EarlierSends
          /\ updateEmailConfig(dl, we)
    \/ \E k \in 1..MaxSent :
          /\ LinkedInUnused /\ EmailIdle /\ TotalRecorded = EarlierSends
          /\ batchSendEmails(k)
    \/ LinkedInUnused /\ EmailBatchItem
    \/ LinkedInUnused /\ SendRecorded(1)
    \/ \E o \in AgentOutcomes : LinkedInUnused /\ SendNotified(1, o)
    \/ LinkedInUnused /\ EmailBatchCollect
    \/ LinkedInUnused /\ EmailBatchReturn
    \/ \E cl \in ActionLimits, dl \in ActionDelays :
          /\ EmailUnused /\ LinkedInIdle /\ linkedin_actions = <<>>
          /\ updateLinkedInConfig(cl, 1, dl, TRUE)
    \/ \E k \in 1..MaxActions :
          /\ EmailUnused /\ LinkedInIdle /\ linkedin_actions = <<>>
          /\ batchSendConnections(k)
    \/ EmailUnused /\ LiBatchItem
    \/ \E o \in AgentOutcomes :
          /\ EmailUnused /\ (o = "success" => SleepEndsInTime)
          /\ LiSettled(1, o)
    \/ \E e \in RandomDelays : EmailUnused /\ LiBatchCollect(e)
    \/ EmailUnused /\ LiBatchReturn

\* Every external call settles, every timer ends and the loop, once it can
\* go on, goes on.
FairTermination ==
    /\ WF_vars(TimePasses)
    /\ WF_vars(LinkedInUnused /\ EmailBatchItem)
    /\ WF_vars(LinkedInUnused /\ SendRecorded(1))
    /\ WF_vars(\E o \in AgentOutcomes : LinkedInUnused /\ SendNotified(1, o))
    /\ WF_vars(LinkedInUnused /\ EmailBatchCollect)
    /\ WF_vars(EmailUnused /\ LiBatchItem)
    /\ WF_vars(\E o \in AgentOutcomes :
                  EmailUnused /\ (o = "success" => SleepEndsInTime) /\ LiSettled(1, o))
    /\ WF_vars(\E e \in RandomDelays : EmailUnused /\ LiBatchCollect(e))

SpecTermination == InitBatch /\ [][NextTermination]_vars /\ FairTermination

----------------------------------------------------------------------------
(* Properties: admission of Email sends *)

\* The cap the specification names for Email: dailyLimit with warmup off, the
\* smaller of dailyLimit and the warmup limit for the account's age with it on.
EffectiveLimit ==
    LET config == getEmailConfig
    IN  IF config.warmupEnabled
        THEN Min(WarmupLimitOf(AccountAge(gmail_first_send_date)), config.dailyLimit)
        ELSE config.dailyLimit

\* Call c is made in this step, inside the sending window, with no other
\* call in flight.
CallInWindow(c) ==
    /\ calls[c].pc = "idle" /\ calls'[c].pc # "idle"
    /\ \A d \in Calls \ {c} : ~InFlight(d)
    /\ isWithinSendingWindow

DeniedByLimit(call) ==
    /\ call.pc = "done" /\ ~call.success
    /\ call.error = "Daily sending limit reached"
    /\ call.scheduledFor = None

\* C1, as stated: with n sendOutreachEmail calls answered success: true today,
\* the next call inside the window is denied with the daily-limit reason and
\* no scheduledFor when n = effectiveLimit, and passes admission when
\* n < effectiveLimit.
C1_EmailDailyCap ==
    [][\A c \in Calls :
          CallInWindow(c) =>
              /\ okCalls[day] = EffectiveLimit => DeniedByLimit(calls'[c])
              /\ okCalls[day] < EffectiveLimit => calls'[c].pc = "sending"]_vars

\* C1, amended: n counts the sends recorded today, whatever the call that
\* made them answered. With n >= effectiveLimit the next call inside the
\* window is denied with the daily-limit reason and no scheduledFor; with
\* n < effectiveLimit it passes admission.
C1_RecordedSendsCap ==
    [][\A c \in Calls :
          CallInWindow(c) =>
              /\ recorded[day] >= EffectiveLimit => DeniedByLimit(calls'[c])
              /\ recorded[day] < EffectiveLimit => calls'[c].pc = "sending"]_vars

\* A call denied by the limit inside the window, after a send was recorded
\* today by an earlier call, with no call in flight.
C1_Witness ==
    \E c \in Calls :
        /\ DeniedByLimit(calls[c])
        /\ calls[c].startDay = day
        /\ isWithinSendingWindow
        /\ recorded[day] >= EffectiveLimit
        /\ \E i \in DOMAIN sent_emails : sent_emails[i].sentAt \div MinutesPerDay = day
        /\ \A d \in Calls : ~InFlight(d)

\* C2: check-then-record is atomic under concurrent sendOutreachEmail calls:
\* when a call records its send on the day it was admitted, the day's count
\* does not exceed the cap the call was admitted under.
C2_AtomicCheckThenRecord ==
    [][\A c \in Calls :
          (calls[c].pc = "sending" /\ calls'[c].pc = "notifying"
             /\ calls[c].startDay = day)
          => gmail_sent'[day] <= calls[c].cap]_vars

----------------------------------------------------------------------------
(* Properties: webhook endpoints *)

Records(store, field, id) == {i \in DOMAIN store : store[i][field] = id}

\* C3: re-delivering an event whose first delivery was answered 200 returns
\* the same result and adds no Agent Service call, store write or
\* notification to those of the first delivery.
C3_RedeliveryIdempotent ==
    \A s \in Reqs, t \in Reqs :
        (/\ Done(s) /\ ~reqs[s].overlap
         /\ t \in reqs[s].after
         /\ reqs[t].req = reqs[s].req
         /\ reqs[t].status = 200)
        => /\ reqs[s].status = reqs[t].status
           /\ reqs[s].success = reqs[t].success
           /\ effects[Key(reqs[s].req)] = reqs[s].snap

\* C4: two deliveries of the same event that overlap are processed under
\* mutual exclusion: once both are answered, the event has one meeting record
\* and one Slack notification.
C4_ConcurrentExactlyOnce ==
    \A s \in Reqs, t \in Reqs :
        (/\ s # t /\ Done(s) /\ Done(t)
         /\ reqs[s].overlap /\ reqs[t].overlap
         /\ reqs[s].req = reqs[t].req
         /\ reqs[s].req.event = "invitee.created")
        => /\ Cardinality(Records(calendly_meetings, "eventId", reqs[s].req.id)) <= 1
           /\ effects[Key(reqs[s].req)].notifs <= 1

\* C5: a request whose signature does not match the configured secret is
\* answered 401 Unauthorized and never reaches its handler.
C5_InvalidSignatureRejected ==
    \A s \in Reqs :
        (Started(s) /\ reqs[s].req.sig = "forged" /\ env[reqs[s].req.provider])
        => /\ ~reqs[s].handled
           /\ Done(s) => reqs[s].status = 401
           /\ effects[Key(reqs[s].req)] = reqs[s].snap

\* C6: verification fails closed: a request with no signature or key never
\* reaches its handler, whether or not a secret is configured (the Gmail
\* endpoint has none to configure).
C6_MissingSignatureRejected ==
    \A s \in Reqs :
        (Started(s) /\ reqs[s].req.sig = "none")
        => /\ ~reqs[s].handled
           /\ effects[Key(reqs[s].req)] = reqs[s].snap

\* C7: once a rescheduled or canceled event has passed the store update of
\* its processor, a meeting record for its eventId exists.
C7_UpsertUnknownEvent ==
    \A s \in Reqs :
        (/\ Started(s) /\ reqs[s].handled
         /\ reqs[s].pc # "cal_track"
         /\ reqs[s].req.event \in {"invitee.rescheduled", "invitee.canceled"})
        => Records(calendly_meetings, "eventId", reqs[s].req.id) # {}

\* C8: no eventId has two meeting records, and after created and then
\* rescheduled for one eventId its record holds the rescheduled start time.
C8_OneRecordPerEvent ==
    /\ \A e \in EventIds : Cardinality(Records(calendly_meetings, "eventId", e)) <= 1
    /\ \A s \in Reqs, t \in Reqs :
         (/\ Done(s) /\ reqs[s].status = 200 /\ reqs[s].req.event = "invitee.rescheduled"
          /\ t \in reqs[s].after
          /\ reqs[t].status = 200 /\ reqs[t].req.event = "invitee.created"
          /\ reqs[t].req.id = reqs[s].req.id)
         => \A i \in Records(calendly_meetings, "eventId", reqs[s].req.id) :
               calendly_meetings[i].startTime = reqs[s].req.start

----------------------------------------------------------------------------
(* Properties: approvals *)

\* C9: an approval record, once written by an interactive action, is never
\* changed by a later one.
C9_ApprovalOneWay ==
    [][\A o \in OutreachIds :
          approvals[o] # None => approvals'[o] = approvals[o]]_vars

\* C10: sendOutreachEmail passes admission only for an outreach whose
\* approval record says approved.
C10_SendReadsApproval ==
    [][\A c \in Calls :
          (calls[c].pc = "idle" /\ calls'[c].pc = "sending")
          => /\ approvals[calls'[c].outreachId] # None
             /\ Get(approvals[calls'[c].outreachId]).status = "approved"]_vars

----------------------------------------------------------------------------
(* Properties: LinkedIn channel *)

LiCallMade(c) == liCalls[c].pc = "idle" /\ liCalls'[c].pc # "idle"

LiRecorded(c) ==
    liCalls[c].pc = "calling" /\ liCalls'[c].pc = "done" /\ liCalls'[c].success

\* C11: a sendConnectionRequest or sendInMail call that passes the cap and
\* window checks less than actionDelayMinutes after the last recorded action
\* is denied with 'Action delay not met', and its scheduledFor is the last
\* action time plus actionDelayMinutes.
C11_DelayNotMet ==
    [][\A c \in LiCalls :
          (/\ LiCallMade(c)
           /\ canPerformAction(liCalls'[c].kind)
           /\ isWithinLinkedInWindow
           /\ linkedin_last_action # None
           /\ Now - Get(linkedin_last_action) < getLinkedInConfig.actionDelayMinutes)
          => /\ liCalls'[c].pc = "done" /\ ~liCalls'[c].success
             /\ liCalls'[c].error = "Action delay not met"
             /\ liCalls'[c].scheduledFor =
                   Some(Get(linkedin_last_action)
                          + getLinkedInConfig.actionDelayMinutes)]_vars

\* A call denied for the delay, whose retry time is the last action time plus
\* the delay and lies in the future.
C11_Witness ==
    \E c \in LiCalls :
        /\ liCalls[c].pc = "done"
        /\ liCalls[c].error = "Action delay not met"
        /\ linkedin_last_action # None
        /\ liCalls[c].scheduledFor =
              Some(Get(linkedin_last_action) + getLinkedInConfig.actionDelayMinutes)
        /\ Get(liCalls[c].scheduledFor) > Now

\* C12: LinkedIn sends stay serialized under concurrent calls: whenever an
\* action is recorded as successful, at least actionDelayMinutes have passed
\* since the last recorded action.
C12_SerializedUnderConcurrency ==
    [][\A c \in LiCalls :
          (LiRecorded(c) /\ linkedin_last_action # None)
          => Now - Get(linkedin_last_action)
                >= getLinkedInConfig.actionDelayMinutes]_vars

----------------------------------------------------------------------------
(* Properties: one operation at a time *)

EmailRecorded(c) == calls[c].pc = "sending" /\ calls'[c].pc = "notifying"

\* C13, as stated: with the Email operations run one at a time, whenever a
\* send has just been recorded the day's sent count is at most
\* min(warmupLimit(accountAge), dailyLimit).
C13_SentCountWithinWarmupCap ==
    [][\A c \in Calls :
          EmailRecorded(c)
          => gmail_sent'[day] <= Min(WarmupLimitOf(AccountAge(gmail_first_send_date)),
                                     getEmailConfig.dailyLimit)]_vars

\* C13, amended: with the Email operations run one at a time, whenever a send
\* has just been recorded the day's sent count is at most the effective
\* limit: min(warmupLimit(accountAge), dailyLimit) with warmup on, dailyLimit
\* with warmup off.
C13_SentCountWithinEffectiveLimit ==
    [][\A c \in Calls : EmailRecorded(c) => gmail_sent'[day] <= EffectiveLimit]_vars

\* A send just recorded with warmup off: the day's count is above the warmup
\* limit for the account's age and within dailyLimit.
C13_Witness ==
    \E c \in Calls :
        /\ calls[c].pc = "notifying"
        /\ calls[c].startDay = day
        /\ ~getEmailConfig.warmupEnabled
        /\ gmail_sent[day] > WarmupLimitOf(AccountAge(gmail_first_send_date))
        /\ gmail_sent[day] <= getEmailConfig.dailyLimit

\* The day's count and the configured limit of one kind of action
CountOf(kind) ==
    IF kind = "connection" THEN linkedin_connections[day] ELSE linkedin_inmails[day]

LimitOf(kind) ==
    IF kind = "connection" THEN getLinkedInConfig.dailyConnectionLimit
    ELSE getLinkedInConfig.dailyInMailLimit

OtherKind(kind) == IF kind = "connection" THEN "inmail" ELSE "connection"

\* C14, as stated: with the LinkedIn operations run one at a time and under
\* every configuration, a recorded connection request leaves the day's
\* connection count within dailyConnectionLimit and a recorded InMail leaves
\* the day's InMail count within dailyInMailLimit.
C14_DailyCapsEveryConfiguration ==
    [][\A c \in LiCalls :
          LiRecorded(c) => CountOf(liCalls[c].kind)' <= LimitOf(liCalls[c].kind)]_vars

\* C14, amended: the same under every configuration with safetyLimitsEnabled
\* set. The counters are independent: a recorded action leaves the other
\* kind's count alone, and a call is denied for the daily limit exactly when
\* the count of its own kind has reached its own limit, whatever the other
\* count; no ramp applies, the limit compared with is the configured one.
C14_DailyCapsWithSafetyLimits ==
    [][\A c \in LiCalls :
          getLinkedInConfig.safetyLimitsEnabled =>
             /\ LiRecorded(c) =>
                   /\ CountOf(liCalls[c].kind)' <= LimitOf(liCalls[c].kind)
                   /\ CountOf(OtherKind(liCalls[c].kind))'
                         = CountOf(OtherKind(liCalls[c].kind))
             /\ LiCallMade(c) =>
                   ((/\ liCalls'[c].pc = "done"
                     /\ liCalls'[c].error = LimitReached(liCalls'[c].kind))
                    <=> CountOf(liCalls'[c].kind) >= LimitOf(liCalls'[c].kind))]_vars

\* An InMail denied for the daily InMail limit after the day's InMails were
\* recorded up to that limit, on a day whose connection count is below its
\* own limit.
C14_Witness ==
    /\ getLinkedInConfig.safetyLimitsEnabled
    /\ liCalls[1].pc = "done" /\ liCalls[1].kind = "inmail"
    /\ liCalls[1].error = LimitReached("inmail")
    /\ CountOf("inmail") = LimitOf("inmail")
    /\ CountOf("inmail") >= 1
    /\ CountOf("connection") < LimitOf("connection")

----------------------------------------------------------------------------
(* Properties: batch senders *)

\* The sends a batch has recorded on the day it started
EmailBatchSent == gmail_sent[emailBatch.startDay] - emailBatch.base

LiBatchSent == linkedin_connections[liBatch.startDay] - liBatch.base

\* A result of an item that was sent. sendOutreachEmail answers success:
\* false for a recorded send whose Monitoring Manager call rejected.
EmailItemSent(res) == res.success \/ res.error = "agent error"

LiItemSent(res) == res.success

ItemDeniedWithHint(res, b) ==
    /\ ~res.success
    /\ res.error = "Daily limit reached"
    /\ res.scheduledFor = Some((b.startDay + 1) * MinutesPerDay + 540)

\* A batch of k > r items has returned on the day it started, every item it
\* let through to the sender was sent: the first r results are those of sent
\* items and each of the other k - r is a denial with a retry time.
BatchStoppedAtCap(b, sent, isSent(_)) ==
    (/\ b.pc = "done" /\ b.sameDay
     /\ Len(b.results) > b.r
     /\ \A i \in DOMAIN b.results :
            isSent(b.results[i]) \/ b.results[i].error = "Daily limit reached")
    => /\ sent = b.r
       /\ \A i \in DOMAIN b.results :
             IF i <= b.r THEN isSent(b.results[i])
             ELSE ItemDeniedWithHint(b.results[i], b)

EmailBatchStopped ==
    /\ emailBatch.pc = "done" /\ emailBatch.sameDay
    /\ emailBatch.r = 1 /\ Len(emailBatch.results) = 2
    /\ EmailBatchSent = 1
    /\ EmailItemSent(emailBatch.results[1])
    /\ ItemDeniedWithHint(emailBatch.results[2], emailBatch)

----------------------------------------------------------------------------
(* Properties: failures at the endpoints *)

\* C15: along the whole path of one Gmail delivery, from the endpoint
\* through handleGmailResponse, a reply classified positive triggers exactly
\* one notification and a reply classified otherwise triggers none.
C15_OnePositiveNotification ==
    [][\A s \in Reqs :
          (reqs[s].pc = "gmail_classify" /\ reqs'[s].pc = "done")
          => LET k == Key(reqs[s].req)
                 stored == Len(email_responses') > Len(email_responses)
                 positive ==
                    /\ stored
                    /\ email_responses'[Len(email_responses')].classification = "positive"
             IN  effects'[k].notifs - effects[k].notifs = IF positive THEN 1 ELSE 0]_vars

\* C16: an event whose handler failed is recorded all the same: when its
\* delivery was answered with a processing error (status 500 or success:
\* false), a later re-delivery is recognised as processed and adds no Agent
\* Service call, store write or notification.
C16_FailedEventStillRecorded ==
    \A s \in Reqs, t \in Reqs :
        (/\ Done(s) /\ ~reqs[s].overlap
         /\ t \in reqs[s].after
         /\ reqs[t].req = reqs[s].req
         /\ reqs[t].handled
         /\ (reqs[t].status = 500 \/ ~reqs[t].success))
        => effects[Key(reqs[s].req)] = reqs[s].snap

\* C17: an endpoint function never throws or rejects: whatever the body, the
\* Agent Service or the store does, every request is answered with a status.
C17_NoThrowPastRouter ==
    \A s \in Reqs :
        /\ ~reqs[s].thrown
        /\ Done(s) => reqs[s].status \in {200, 400, 401, 500}

\* Two requests answered 500 by the catch block: one whose body was null, one
\* whose handler was entered and whose Agent Service call or store write
\* failed.
C17_Witness ==
    \E s \in Reqs, t \in Reqs :
        /\ Done(s) /\ reqs[s].status = 500
        /\ reqs[s].req.event = "malformed" /\ reqs[s].req.id = "null"
        /\ Done(t) /\ reqs[t].status = 500 /\ reqs[t].handled

\* C18: when the Response Classifier answers with a status other than
\* success (the reply is then stored without a classification),
\* handleGmailResponse reports the failure: success: false.
C18_NonSuccessReported ==
    [][\A s \in Reqs :
          (/\ reqs[s].pc = "gmail_classify" /\ reqs'[s].pc = "done"
           /\ Len(email_responses') > Len(email_responses)
           /\ email_responses'[Len(email_responses')].classification = NULL)
          => ~reqs'[s].success]_vars

----------------------------------------------------------------------------
(* Interactive actions on approvals *)

\* Request slot s is answered in this step by the interactive-action handler,
\* for a click on the given button.
Clicked(s, button) ==
    /\ reqs[s].pc = "idle"
    /\ reqs'[s].pc = "done"
    /\ reqs'[s].handled
    /\ reqs'[s].req.provider = "slack"
    /\ reqs'[s].req.event = button

DecisionOf(button) == IF button = "approve" THEN "approved" ELSE "rejected"

\* C21: an approve_{id} (reject_{id}) action handled for an outreach item
\* with no decision recorded yet stores the decision approved (rejected)
\* with the deciding user and the time of the decision, and is answered
\* with a success acknowledgment.
C21_DecisionRecorded ==
    [][\A s \in Reqs, button \in {"approve", "reject"} :
          (Clicked(s, button) /\ approvals[reqs'[s].req.id] = None)
          => /\ approvals'[reqs'[s].req.id] =
                    Some([status |-> DecisionOf(button),
                          approved_by |-> reqs'[s].req.user,
                          approved_at |-> Now])
             /\ reqs'[s].status = 200
             /\ reqs'[s].success]_vars

\* Both decisions have been taken through the handler, each on an item that
\* was pending.
C21_Witness ==
    /\ approvals["o1"] # None /\ Get(approvals["o1"]).status = "approved"
    /\ approvals["o2"] # None /\ Get(approvals["o2"]).status = "rejected"
    /\ \E s, t \in Reqs :
          /\ Done(s) /\ reqs[s].handled /\ reqs[s].success
          /\ reqs[s].req.event = "approve" /\ reqs[s].req.id = "o1"
          /\ Done(t) /\ reqs[t].handled /\ reqs[t].success
          /\ reqs[t].req.event = "reject" /\ reqs[t].req.id = "o2"

\* The edit action has been handled in this step, by either handler.
EditHandled ==
    \/ \E s \in Reqs : Clicked(s, "edit")
    \/ /\ probe' # probe
       /\ probe'.fn = "handleSlackApproval"
       /\ probe'.action = "edit"

\* C22: handling an edit action, through any handler that accepts it, leaves
\* the approvals store and every other persisted record unchanged.
C22_EditWritesNothing ==
    [][EditHandled
       => UNCHANGED <<approvals, emailVars, liVars, meetings, calendly_meetings,
                      pre_meeting_research, pre_meeting_emails, transcripts,
                      voice_library, email_responses, slack_notifications,
                      slack_message_history>>]_vars

\* The action a button stands for
ActionOfButton(text) ==
    CASE text = "Approve" -> "approve"
      [] text = "Reject" -> "reject"
      [] text = "Edit" -> "edit"

\* C23: each of the three buttons built for an outreach id, fed back to the
\* interactive-action handler, resolves to that same outreach id and to the
\* action of the button.
C23_ActionIdRoundTrip ==
    probe.fn = "handleSlackInteraction"
    => probe.resolved = [action |-> ActionOfButton(probe.clicked.text),
                         outreachId |-> probe.outreachId]

\* The Edit button of an outreach whose id begins with the prefix of another
\* action has been clicked and resolved.
C23_Witness ==
    /\ probe.fn = "handleSlackInteraction"
    /\ probe.outreachId = REJECT \o <<"o", "1">>
    /\ probe.clicked.text = "Edit"
    /\ probe.resolved.action = "edit"

----------------------------------------------------------------------------
(* The warmup ramp *)

\* C24: once set, gmail_first_send_date is never changed or cleared by any
\* operation (sends, queries, configuration updates, disconnect), so the
\* account age never decreases.
C24_FirstSendDateWriteOnce ==
    [][gmail_first_send_date # None
       => gmail_first_send_date' = gmail_first_send_date]_vars

\* C25: the warmup limit is a step function of the account age in days: 10
\* below 7, 25 from 7 to 13, 50 from 14 to 20, 100 from 21 on.
C25_WarmupStepFunction ==
    probe.fn = "getWarmupLimit"
    => /\ probe.accountAge \in 0..6 => probe.limit = 10
       /\ probe.accountAge \in 7..13 => probe.limit = 25
       /\ probe.accountAge \in 14..20 => probe.limit = 50
       /\ probe.accountAge >= 21 => probe.limit = 100
       /\ probe.accountAge >= 0

\* The limit has been asked for at age 7, the first age of the second step.
C25_Witness ==
    /\ probe.fn = "getWarmupLimit"
    /\ probe.accountAge = 7
    /\ probe.limit = 25

\* Day k is the k-th 24-hour period starting at the first send.
RampDay(first, now) == (now - first) \div MinutesPerDay + 1

\* The schedule of the setup guide
DocumentedLimit(k) ==
    IF k \in 1..7 THEN 10
    ELSE IF k \in 8..14 THEN 25
    ELSE IF k \in 15..21 THEN 50
    ELSE 100

\* C26: on days 1-7 counted from the first send the warmup limit is 10, on
\* days 8-14 it is 25, on days 15-21 it is 50 and from day 22 on it is 100.
C26_DocumentedSchedule ==
    probe.fn = "getWarmupLimit"
    => IF probe.first = None THEN probe.limit = DocumentedLimit(1)
       ELSE probe.now >= Get(probe.first)
            => probe.limit = DocumentedLimit(RampDay(Get(probe.first), probe.now))

----------------------------------------------------------------------------
(* Denials *)

\* Minutes after midnight of a time of day HH:MM
MinutesOf(hhmm) ==
    (hhmm[1] * 10 + hhmm[2]) * 60 + hhmm[4] * 10 + hhmm[5]

\* The start of the sending window of the day after day d
NextDayWindowStart(d, config) == (d + 1) * MinutesPerDay + MinutesOf(config.startTime)

\* C27: every denial for the daily cap, from every send operation, carries
\* the daily-limit reason and a retry hint equal to the start of the next
\* day's sending window.
C27_CapDenialCarriesRetryHint ==
    /\ \A c \in Calls :
          (calls[c].pc = "done" /\ calls[c].error = "Daily sending limit reached")
          => calls[c].scheduledFor
                = Some(NextDayWindowStart(calls[c].startDay, getEmailConfig))
    /\ \A c \in LiCalls :
          (liCalls[c].pc = "done"
             /\ liCalls[c].error \in {LimitReached(k) : k \in ActionTypes})
          => /\ liCalls[c].scheduledFor # None
             /\ Get(liCalls[c].scheduledFor) % MinutesPerDay
                    = MinutesOf(getLinkedInConfig.startTime)

\* The start of the next sending window that begins after the current time
NextWindowStartAfterNow(config) ==
    IF tod < MinutesOf(config.startTime)
    THEN day * MinutesPerDay + MinutesOf(config.startTime)
    ELSE NextDayWindowStart(day, config)

\* C28: a denial for being outside the sending window returns as retry time
\* the start of the next window that begins after the current time: today's
\* start before today's start, tomorrow's start after today's end.
C28_RetryAtNextWindowStart ==
    [][/\ \A c \in Calls :
            (calls[c].pc = "idle" /\ calls'[c].pc = "done"
               /\ calls'[c].error = "Outside sending window")
            => calls'[c].scheduledFor = Some(NextWindowStartAfterNow(getEmailConfig))
       /\ \A c \in LiCalls :
            (liCalls[c].pc = "idle" /\ liCalls'[c].pc = "done"
               /\ liCalls'[c].error = "Outside sending window")
            => liCalls'[c].scheduledFor
                  = Some(NextWindowStartAfterNow(getLinkedInConfig))]_vars

C30_MalformedAnswered400 ==
    \A s \in Reqs :
        (Done(s) /\ reqs[s].req.event = "malformed" /\ reqs[s].status # 401)
        => /\ reqs[s].status = 400
           /\ ~reqs[s].handled

----------------------------------------------------------------------------
(* The phrase library *)

\* The winning phrases of the analyses stored so far
ExtractedPhrases ==
    UNION {{Get(transcripts[i].analysis)[j] : j \in DOMAIN Get(transcripts[i].analysis)} :
             i \in {k \in DOMAIN transcripts : transcripts[k].analysis # None}}

\* C31: after any sequence of transcript events from Otter or Fireflies,
\* every winning phrase the Agent Service extracted is in the phrase library,
\* and the library never holds the same phrase text twice.
C31_ExtractedPhrasesInLibrary ==
    /\ \A p \in ExtractedPhrases : \E k \in DOMAIN voice_library : voice_library[k] = p
    /\ \A i, j \in DOMAIN voice_library :
          i # j => voice_library[i] # voice_library[j]

----------------------------------------------------------------------------
(* The daily digest *)

\* A digest has been sent in this step.
DigestSent ==
    /\ Len(slack_notifications') = Len(slack_notifications) + 1
    /\ slack_notifications'[Len(slack_notifications')].type = "daily_digest"

\* C32: sendDailyDigest modifies no store it aggregates, and a digest sent on
\* the same day as the previous one, with no event in between, reports the
\* same counts.
C32_DigestIsSnapshot ==
    [][DigestSent
       => /\ UNCHANGED <<sent_emails, email_responses, meetings>>
          /\ (/\ probe.fn = "sendDailyDigest"
               /\ probe.day = day
               /\ probe.snap = <<sent_emails, email_responses, meetings, approval_queue>>)
             => probe'.stats = probe.stats]_vars

\* Two digests of the same day, sent after an email of that day, with nothing
\* in between, both reporting the email.
C32_Witness ==
    /\ Len(slack_message_history) >= 2
    /\ probe.fn = "sendDailyDigest"
    /\ probe.stats.outreachSent = 1
    /\ probe.stats.responses = 1
    /\ slack_message_history[Len(slack_message_history)].blocks = probe.stats
    /\ slack_message_history[Len(slack_message_history) - 1].blocks = probe.stats

----------------------------------------------------------------------------
(* Every kind of LinkedIn action *)

\* C33: under one-at-a-time execution, two consecutive successful LinkedIn
\* actions of any kind are recorded at least actionDelayMinutes apart.
C33_DelayIsChannelGlobal ==
    [][(/\ LiRecorded(1)
        /\ linkedin_last_action # None)
       => Now - Get(linkedin_last_action) >= getLinkedInConfig.actionDelayMinutes]_vars

\* C34: once set, the last action time is never cleared or moved backwards.
C34_LastActionMonotonic ==
    [][linkedin_last_action # None
       => /\ linkedin_last_action' # None
          /\ Get(linkedin_last_action') >= Get(linkedin_last_action)]_vars

\* C35: an external LinkedIn call is issued only when the current time lies
\* within the configured sending window.
C35_CallsInsideWindow ==
    [][\A c \in LiCalls :
          (liCalls[c].pc = "idle" /\ liCalls'[c].pc = "calling")
          => isWithinLinkedInWindow]_vars

----------------------------------------------------------------------------
(* The sleep of batchSendConnections *)

\* sendConnectionRequest has returned success to the batch in this step.
LiBatchSuccessCollected ==
    /\ liBatch.pc = "awaiting"
    /\ liCalls[1].pc = "done" /\ liCalls[1].success
    /\ liBatch'.pc # "awaiting"

\* The batch attempts, in this step, an item that follows a successful one.
LiBatchNextAttempted ==
    /\ liBatch.pc = "running"
    /\ liBatch.results # <<>>
    /\ liBatch.results[Len(liBatch.results)].success
    /\ liBatch'.pc = "awaiting"

\* C36: in a batchSendConnections job running alone, the job waits at least
\* actionDelayMinutes and less than actionDelayMinutes + 30 minutes after a
\* successful request, and the item that follows a successful one is never
\* denied for the delay.
C36_BatchWaitsOutDelay ==
    [][/\ LiBatchSuccessCollected
            => /\ liBatch'.wakeAt - Now >= getLinkedInConfig.actionDelayMinutes
               /\ liBatch'.wakeAt - Now < getLinkedInConfig.actionDelayMinutes + 30
       /\ LiBatchNextAttempted
            => liCalls'[1].error # "Action delay not met"]_vars

\* A batch has sent two requests one after the other.
C36_Witness ==
    /\ liBatch.pc # "idle"
    /\ Len(liBatch.results) >= 2
    /\ liBatch.results[1].success
    /\ liBatch.results[2].success
    /\ liBatch.sameDay

----------------------------------------------------------------------------
(* Termination and results of the batch jobs *)

BatchActive(b) == b.pc \in {"running", "awaiting"}

\* A finished batch holds one result per item of its input.
BatchComplete(b) == b.pc = "done" => (b.left = 0 /\ Len(b.results) = b.size)

\* Between b and c the results are untouched, or the result of the item the
\* loop stands at is added behind the results of the items before it.
ResultAppended(b, c) ==
    \/ c.results = b.results
    \/ c.pc = "idle"
    \/ /\ BatchActive(b)
       /\ Len(c.results) = Len(b.results) + 1
       /\ SubSeq(c.results, 1, Len(b.results)) = b.results
       /\ Len(c.results) = b.size - b.left + 1
       /\ c.left = b.left - 1

\* C38: batchSendEmails and batchSendConnections, started on a finite list
\* and given that every call and timer completes, come to their end; they
\* add one result per item, sent, denied or failed, in the order of the
\* items, and end with as many results as the list had items.
C38_BatchTerminatesOneResultPerItem ==
    /\ [](BatchComplete(emailBatch) /\ BatchComplete(liBatch))
    /\ [][ResultAppended(emailBatch, emailBatch') /\ ResultAppended(liBatch, liBatch')]_vars
    /\ BatchActive(emailBatch) ~> (emailBatch.pc = "done")
    /\ BatchActive(liBatch) ~> LiBatchFinished

\* A batch of two has ended: its first item was sent, its second denied.
C38_Witness ==
    /\ emailBatch.pc = "done"
    /\ emailBatch.size = 2
    /\ Len(emailBatch.results) = 2
    /\ emailBatch.results[1].success
    /\ emailBatch.results[2].error = "Daily limit reached"

----------------------------------------------------------------------------
(* Query operations *)

Queries == {"canSendToday", "getWarmupLimit", "getEmailStats", "getTodaySentCount",
            "isWithinSendingWindow", "canPerformAction", "getLinkedInStats"}

\* C37: the query operations leave every persisted key unchanged: the
\* configurations, the counters, the first send date, the last action time.
C37_QueriesReadOnly ==
    [][(probe' # probe /\ probe'.fn \in Queries)
       => UNCHANGED <<gmail_config, gmail_first_send_date, gmail_sent, sent_emails,
                      linkedin_config, linkedin_connections, linkedin_inmails,
                      linkedin_last_action, linkedin_actions>>]_vars

\* C39: for every configuration, getEmailStats reports canSendMore exactly
\* when the sentToday it reports is less than the dailyLimit it reports.
C39_StatsAgreeWithAdmission ==
    probe.fn = "getEmailStats"
    => (probe.canSendMore <=> probe.sentToday < probe.dailyLimit)

----------------------------------------------------------------------------
(* The two writers of the approvals store *)

\* C40: whichever of handleApproval and handleSlackApproval wrote it, every
\* stored approval has a status field, and its value is approved or
\* rejected.
C40_EntriesHaveStatus ==
    \A o \in DOMAIN approvals :
        approvals[o] # None
        => /\ "status" \in DOMAIN Get(approvals[o])
           /\ Get(approvals[o]).status \in {"approved", "rejected"}

====
